---- MODULE Spec2Model ----
(***************************************************************************)
(* Scan-cycle orchestration of the passport / ID-card scanner application. *)
(* The orchestrator is the Electron main process (performScan, the         *)
(* automatic loop, the manual-scan queue, forceReconnectScanner); every    *)
(* action below is one synchronous run of the JavaScript event loop, from  *)
(* one await (or timer / IPC callback) to the next.                        *)
(*                                                                         *)
(* The clock advances in steps of TimeStep; only the comparisons the code  *)
(* makes with Date.now() (backoff, reconnect suppression) and the          *)
(* cool-down sleep depend on it, the duration of a device call is left     *)
(* open.  A queued-manual timer (50 ms) fires before the clock advances.   *)
(* The polling loops of docTypeStepWithRetry, mrzStep and ocrStep read and *)
(* write no variable of the main process between their polls, so each is   *)
(* one step that ends with the loop's result.  The USB monitor is created  *)
(* but never started, so it delivers no event.                             *)
(***************************************************************************)
EXTENDS Integers, Sequences, FiniteSets, TLC

(* ---- program constants ------------------------------------------------ *)
FAIL_BACKOFF_MS == 2500
RECONNECT_SUPPRESS_MS == 3000
COOLDOWN_MS == 1200
TIMEOUT_THRESHOLD == 3
MRZ_MIN_LENGTH == 60
MRZ_TEXT_MIN == 10
NAME_MIN_LENGTH == 2

(* ---- bounds of the model ---------------------------------------------- *)
StartTime == 3000
TimeStep == 1500
MaxTicks == 2
MaxInvocations == 2
MaxIpcReconnects == 1
MaxQueuedTimers == 1
MaxTimeouts == 4
MaxRequests == 4

MaxNow == StartTime + MaxTicks * TimeStep

Slots == 1..MaxInvocations
IpcIds == 1..MaxIpcReconnects
RcIds == ({"scan"} \X Slots) \cup ({"ipc"} \X IpcIds)

DocNames == {"UNKNOWN", "PASSPORT", "ID_CARD", "DRIVER_LICENSE", "ALIEN_CARD"}

VARIABLES
  now,                          \* Date.now()
  scanner,                      \* generation of the ScannerClient held in `scanner`
  scannerOpened,
  scanLoopTimer,                \* TRUE iff the interval timer is set
  isScanning,
  lastFailedAt,
  pendingManualScan,
  lastReconnectAt,
  consecutiveScanAutoTimeouts,
  ps,                           \* performScan activations: slot -> frame
  rc,                           \* forceReconnectScanner activations: id -> frame
  queuedTimers,                 \* armed setTimeout(..., 50) of performScan's finally
  document,                     \* is a document lying on the scanner
  captured,                     \* history: a result was persisted for the document lying there
  timeoutsSinceSuccess,         \* history: scanAuto timeouts since the last successful scanAuto
  staged,                       \* staged image files in SAVE_FOLDER: subset of {"bmp", "ir"}
  obs,                          \* what the last step emitted / returned
  arg,                          \* the argument a library function is called with
  ret,                          \* the function called and the value it returned
  reqId,                        \* ScannerClient._reqId
  pending,                      \* ScannerClient._pending: the ids in the table
  promises,                     \* the promise _call returned for each id: its state
  worker,                       \* the execution context of the ScannerClient
  poll                          \* the activation of a polling function taken by itself

vars == <<now, scanner, scannerOpened, scanLoopTimer, isScanning, lastFailedAt,
          pendingManualScan, lastReconnectAt, consecutiveScanAutoTimeouts, ps, rc,
          queuedTimers, document, captured, timeoutsSinceSuccess, staged, obs,
          arg, ret, reqId, pending, promises, worker, poll>>

\* the variables of the library functions and of one ScannerClient taken by
\* itself; the orchestrator's steps leave them alone
libVars == <<arg, ret, reqId, pending, promises, worker, poll>>

\* presented is history: the document this activation scanned still lies there
\* images is the result of waitImagesStep: the staged files whose path it
\* returned (bmpPath, irPath)
IdleFrame == [pc |-> "idle", type |-> "none", docType |-> "null", since |-> 0,
              presented |-> FALSE, images |-> {}]

IdleRc == [pc |-> "idle", wasRunning |-> FALSE]

(* ---- extracted data ---------------------------------------------------- *)
\* An MRZ text as far as the code looks at it: p says whether the text
\* without white space starts with 'P', len is its length without white
\* space, ws the number of white-space characters in it.
MrzLens == {0, 11, 59, 60}

MrzTexts == {m \in [p : BOOLEAN, len : MrzLens, ws : {0, 2}] : m.p => m.len > 0}

\* the empty string
EmptyMrz == [p |-> FALSE, len |-> 0, ws |-> 0]

\* `mrz.length`, and a string as a condition
Length(m) == m.len + m.ws

Truthy(m) == Length(m) > 0

isValidPassportMRZ(m) == Truthy(m) /\ m.p /\ m.len >= MRZ_MIN_LENGTH

\* Extracted fields as far as the code looks at them: numberOk says whether
\* the number of the document (idNo, licenseNo, alienNo) has the form the
\* looksLike... test of its type wants, nameLen is the length of the
\* trimmed name. NullData is null.
NameLens == {1, 2}

NullData == [documentType |-> "null", numberOk |-> FALSE, nameLen |-> 0]

\* what an OCR getter answers: null (also after a timeout) or an object
OcrValues == {NullData} \cup [documentType : {"unset"}, numberOk : BOOLEAN, nameLen : NameLens]

\* `v ? { ...v, documentType: name } : null`
Tagged(v, name) == IF v = NullData THEN NullData ELSE [v EXCEPT !.documentType = name]

isLikelyValidOcr(documentData) ==
  CASE documentData.documentType \in {"ID_CARD", "DRIVER_LICENSE", "ALIEN_CARD"} ->
         documentData.numberOk \/ documentData.nameLen >= NAME_MIN_LENGTH
    [] documentData.documentType = "PASSPORT" -> TRUE
    [] OTHER -> FALSE

\* mrzStep: the first valid text of up to three readMRZ answers, else '';
\* mrz is the answer that decides
MrzStepResult(mrz) == IF isValidPassportMRZ(mrz) THEN mrz ELSE EmptyMrz

\* the passport branch of performScan: documentData is the parsed MRZ or
\* { documentType: 'PASSPORT' } when mrzStep returned a text, else null
PassportData(mrzText) ==
  IF Truthy(mrzText) THEN [documentType |-> "PASSPORT", numberOk |-> FALSE, nameLen |-> 0]
  ELSE NullData

\* ocrStep for a detected card type: the first accepted answer of its
\* getter, else null; v is the answer that decides
OcrStepResult(name, v) ==
  IF isLikelyValidOcr(Tagged(v, name)) THEN Tagged(v, name) ELSE NullData

\* everything taken as recognized
RecognizedAlways(mrzText, documentData) == TRUE

\* `(mrzText && mrzText.length > 10) || isLikelyValidOcr(documentData)`
RecognizedBy(mrzText, documentData) ==
  (Truthy(mrzText) /\ Length(mrzText) > MRZ_TEXT_MIN) \/ isLikelyValidOcr(documentData)

\* the methods of ScannerClient; a call of anything else throws a TypeError
\* before a request is posted
ClientMethods == {"init", "open", "close", "scanAuto", "scanCardWithType",
                  "getDocumentType", "readMRZ", "readIDCard", "readDriverLicense",
                  "readAlienCard", "destroy"}

\* the requests posted by `scanner.<cmd>()`
Posts(cmd) == IF cmd \in ClientMethods THEN {cmd} ELSE {}

\* what the last step did at the boundaries of the main process: events sent
\* to the renderer, the value a reconnect request returned, the device call
\* abandoned at its deadline, whether a reconnect was begun or suppressed,
\* whether worker.terminate() of the previous execution context ran, the
\* requests posted by a step that ends an attempt, the files written and the
\* staged files unlinked, and mrzText and documentData as the extraction
\* stage left them; ret is also "scan:noDocument" when scanAuto answered
\* { success: false } and "images:missing" when waitImagesStep returned no
\* primary image
NoObs == [sent |-> <<>>, ret |-> "none", timedOut |-> "none", reconnect |-> "none",
          terminated |-> FALSE, posted |-> {}, wrote |-> {}, unlinked |-> {},
          mrzText |-> EmptyMrz, documentData |-> NullData]

StatusEvent(connected, error) ==
  [ch |-> "scanner-status", connected |-> connected, error |-> error,
   documentType |-> "null", parsed |-> "null"]

ResultEvent(documentType, parsed) ==
  [ch |-> "scan-result", connected |-> TRUE, error |-> "none",
   documentType |-> documentType, parsed |-> parsed]

\* no library function has been called
NoRet == [fn |-> "none", value |-> "none"]

\* no polling function has been called
NoPoll == [fn |-> "none", pc |-> "none"]

\* the library at rest: nothing called, a client that has posted nothing
LibraryAtRest ==
  /\ arg = "none"
  /\ ret = NoRet
  /\ reqId = 1
  /\ pending = {}
  /\ promises = <<>>
  /\ worker = "running"
  /\ poll = NoPoll

\* the main process after app start
OrchestratorStart ==
  /\ now = StartTime
  /\ scanner = 1
  /\ scannerOpened \in BOOLEAN
  /\ scanLoopTimer = TRUE
  /\ isScanning = FALSE
  /\ lastFailedAt = 0
  /\ pendingManualScan = FALSE
  /\ lastReconnectAt = 0
  /\ consecutiveScanAutoTimeouts = 0
  /\ ps = [s \in Slots |-> IdleFrame]
  /\ rc = [r \in RcIds |-> IdleRc]
  /\ queuedTimers = 0
  /\ document = "none"
  /\ captured = FALSE
  /\ timeoutsSinceSuccess = 0
  /\ staged = {}
  /\ obs = NoObs

Init ==
  /\ LibraryAtRest
  /\ OrchestratorStart

\* the variables of the main process
mainVars == <<now, scanner, scannerOpened, scanLoopTimer, isScanning, lastFailedAt,
              pendingManualScan, lastReconnectAt, consecutiveScanAutoTimeouts, ps, rc,
              queuedTimers, document, captured, timeoutsSinceSuccess, staged, obs>>

(* ---- the clock and the physical document ------------------------------ *)
Tick ==
  /\ now < MaxNow
  /\ queuedTimers = 0
  /\ now' = now + TimeStep
  /\ obs' = NoObs
  /\ UNCHANGED <<scanner, scannerOpened, scanLoopTimer, isScanning, lastFailedAt,
                 pendingManualScan, lastReconnectAt, consecutiveScanAutoTimeouts,
                 ps, rc, queuedTimers, document, captured, timeoutsSinceSuccess, staged, libVars>>

PlaceDocument ==
  /\ document = "none"
  /\ document' = "present"
  /\ captured' = FALSE
  /\ obs' = NoObs
  /\ UNCHANGED <<now, scanner, scannerOpened, scanLoopTimer, isScanning, lastFailedAt,
                 pendingManualScan, lastReconnectAt, consecutiveScanAutoTimeouts,
                 ps, rc, queuedTimers, timeoutsSinceSuccess, staged, libVars>>

RemoveDocument ==
  /\ document = "present"
  /\ document' = "none"
  /\ captured' = FALSE
  /\ ps' = [s \in Slots |-> [ps[s] EXCEPT !.presented = FALSE]]
  /\ obs' = NoObs
  /\ UNCHANGED <<now, scanner, scannerOpened, scanLoopTimer, isScanning, lastFailedAt,
                 pendingManualScan, lastReconnectAt, consecutiveScanAutoTimeouts,
                 rc, queuedTimers, timeoutsSinceSuccess, staged, libVars>>

(* ---- withTimeout ------------------------------------------------------- *)
\* the call awaited without a deadline
DeadlineNeverFires(call) == FALSE

\* withTimeout(promise, ms, label): a timer armed with the call rejects the
\* race after ms, whether or not the promise ever settles
DeadlineFires(call) == TRUE

(* ---- performScan: entry and exit -------------------------------------- *)
\* the entry check left out
NeverBusy == FALSE

\* `if (isScanning) return;`
PerformScanBusy == isScanning

\* the backoff check of the loop callback left out
NoBackoff == FALSE

\* `Date.now() - lastFailedAt < FAIL_BACKOFF_MS`
InBackoff == now - lastFailedAt < FAIL_BACKOFF_MS

\* the storm check left out
NeverSuppressed == FALSE

\* `now - lastReconnectAt < 3000`
ReconnectSuppressed == now - lastReconnectAt < RECONNECT_SUPPRESS_MS

\* one call of performScan(): returns at once when busy, else sets the busy
\* flag and issues scanAuto (the activation takes the lowest free slot)
PerformScan ==
  IF PerformScanBusy
  THEN UNCHANGED <<isScanning, ps>>
  ELSE /\ isScanning' = TRUE
       /\ \E s \in Slots :
            /\ ps[s].pc = "idle"
            /\ \A t \in Slots : t < s => ps[t].pc # "idle"
            /\ ps' = [ps EXCEPT ![s] = [IdleFrame EXCEPT !.pc = "scan"]]

\* the finally block; lf is lastFailedAt as the try/catch part left it
Finally(s, lf) ==
  /\ isScanning' = FALSE
  /\ ps' = [ps EXCEPT ![s] = IdleFrame]
  /\ pendingManualScan' = FALSE
  /\ lastFailedAt' = IF pendingManualScan THEN 0 ELSE lf
  /\ queuedTimers' = IF pendingManualScan THEN queuedTimers + 1 ELSE queuedTimers

\* the setInterval callback of startScanLoop (a callback that returns early
\* changes nothing and is a stuttering step)
LoopTick ==
  /\ scanLoopTimer
  /\ scannerOpened
  /\ ~isScanning
  /\ ~InBackoff
  /\ PerformScan
  /\ obs' = NoObs
  /\ UNCHANGED <<now, scanner, scannerOpened, scanLoopTimer, lastFailedAt,
                 pendingManualScan, lastReconnectAt, consecutiveScanAutoTimeouts,
                 rc, queuedTimers, document, captured, timeoutsSinceSuccess, staged, libVars>>

\* the precondition of the requests left out
AlwaysConnected == FALSE

\* `if (!scanner || !scannerOpened)` of the manual-scan and start-scan-loop
\* handlers (scanner is set at app start and never cleared)
NotConnected == ~scannerOpened

\* `return { ok: false, error: 'Scanner not connected' };`
NotConnectedError == [NoObs EXCEPT !.ret = "error:notConnected"]

\* ipcMain.handle('manual-scan')
ManualScan ==
  /\ isScanning => queuedTimers < MaxQueuedTimers
  /\ IF NotConnected
     THEN /\ obs' = NotConnectedError
          /\ UNCHANGED <<lastFailedAt, pendingManualScan, isScanning, ps>>
     ELSE /\ lastFailedAt' = 0
          /\ obs' = NoObs
          /\ IF isScanning
             THEN /\ pendingManualScan' = TRUE
                  /\ UNCHANGED <<isScanning, ps>>
             ELSE /\ PerformScan
                  /\ UNCHANGED pendingManualScan
  /\ UNCHANGED <<now, scanner, scannerOpened, scanLoopTimer, lastReconnectAt,
                 consecutiveScanAutoTimeouts, rc, queuedTimers, document,
                 captured, timeoutsSinceSuccess, staged, libVars>>

\* the setTimeout(() => performScan(), 50) armed by the finally block
QueuedTimerFire ==
  /\ queuedTimers > 0
  /\ queuedTimers' = queuedTimers - 1
  /\ PerformScan
  /\ obs' = NoObs
  /\ UNCHANGED <<now, scanner, scannerOpened, scanLoopTimer, lastFailedAt,
                 pendingManualScan, lastReconnectAt, consecutiveScanAutoTimeouts,
                 rc, document, captured, timeoutsSinceSuccess, staged, libVars>>

\* ipcMain.handle('start-scan-loop') and startScanLoop
StartScanLoopIpc ==
  /\ IF NotConnected
     THEN /\ obs' = NotConnectedError
          /\ UNCHANGED scanLoopTimer
     ELSE /\ scanLoopTimer' = TRUE
          /\ obs' = NoObs
  /\ UNCHANGED <<now, scanner, scannerOpened, isScanning, lastFailedAt,
                 pendingManualScan, lastReconnectAt, consecutiveScanAutoTimeouts,
                 ps, rc, queuedTimers, document, captured, timeoutsSinceSuccess, staged, libVars>>

\* ipcMain.handle('stop-scan-loop') and stopScanLoop
StopScanLoopIpc ==
  /\ scanLoopTimer' = FALSE
  /\ obs' = NoObs
  /\ UNCHANGED <<now, scanner, scannerOpened, isScanning, lastFailedAt,
                 pendingManualScan, lastReconnectAt, consecutiveScanAutoTimeouts,
                 ps, rc, queuedTimers, document, captured, timeoutsSinceSuccess, staged, libVars>>

(* ---- forceReconnectScanner -------------------------------------------- *)
\* the synchronous head of a non-suppressed call: stamp, remember the loop
\* flag, stop the loop, issue scanner.close()
BeginReconnect(r) ==
  /\ lastReconnectAt' = now
  /\ rc' = [rc EXCEPT ![r] = [pc |-> "close", wasRunning |-> scanLoopTimer]]
  /\ scanLoopTimer' = FALSE

\* the activation r returns v to its caller: the catch block of performScan
\* (which then runs its finally block) or the 'reconnect-scanner' handler
ReturnFromReconnect(r, v, events) ==
  /\ obs' = [NoObs EXCEPT !.sent = events,
                          !.ret = IF v THEN "reconnect:true" ELSE "reconnect:false"]
  /\ IF r[1] = "scan"
     THEN Finally(r[2], lastFailedAt)
     ELSE UNCHANGED <<isScanning, ps, pendingManualScan, lastFailedAt, queuedTimers>>

\* ipcMain.handle('reconnect-scanner')
IpcReconnect ==
  /\ IF ReconnectSuppressed
     THEN /\ obs' = [NoObs EXCEPT !.ret = "reconnect:false", !.reconnect = "suppressed"]
          /\ UNCHANGED <<lastReconnectAt, rc, scanLoopTimer>>
     ELSE /\ \E k \in IpcIds :
               /\ rc[<<"ipc", k>>].pc = "idle"
               /\ \A j \in IpcIds : j < k => rc[<<"ipc", j>>].pc # "idle"
               /\ BeginReconnect(<<"ipc", k>>)
          /\ obs' = [NoObs EXCEPT !.reconnect = "started"]
  /\ UNCHANGED <<now, scanner, scannerOpened, isScanning, lastFailedAt,
                 pendingManualScan, consecutiveScanAutoTimeouts, ps, queuedTimers,
                 document, captured, timeoutsSinceSuccess, staged, libVars>>

\* closeDevice(): close answered or abandoned after 2 s; then sleep(250) starts
RcCloseDone(r) ==
  /\ rc[r].pc = "close"
  /\ scannerOpened' = FALSE
  /\ rc' = [rc EXCEPT ![r].pc = "pause"]
  /\ obs' = [NoObs EXCEPT !.sent = <<StatusEvent(FALSE, "none")>>]
  /\ UNCHANGED <<now, scanner, scanLoopTimer, isScanning, lastFailedAt,
                 pendingManualScan, lastReconnectAt, consecutiveScanAutoTimeouts,
                 ps, queuedTimers, document, captured, timeoutsSinceSuccess, staged, libVars>>

\* sleep(250) over; scanner.destroy() issued with its 1.5 s deadline
RcPauseDone(r) ==
  /\ rc[r].pc = "pause"
  /\ rc' = [rc EXCEPT ![r].pc = "destroy"]
  /\ obs' = NoObs
  /\ UNCHANGED <<now, scanner, scannerOpened, scanLoopTimer, isScanning,
                 lastFailedAt, pendingManualScan, lastReconnectAt,
                 consecutiveScanAutoTimeouts, ps, queuedTimers, document,
                 captured, timeoutsSinceSuccess, staged, libVars>>

\* scanner.destroy() is over or abandoned at its 1.5 s deadline. destroy()
\* awaits close(), a request without a deadline of its own, and calls
\* worker.terminate() only after the worker has answered it: terminated says
\* whether that happened in time. Then scanner = new ScannerClient() starts a
\* new worker and init is issued to it.
RcDestroyDone(r, terminated) ==
  /\ rc[r].pc = "destroy"
  /\ ~terminated => DeadlineFires("destroy")
  /\ scanner' = scanner + 1
  /\ rc' = [rc EXCEPT ![r].pc = "init"]
  /\ obs' = [NoObs EXCEPT !.terminated = terminated]
  /\ UNCHANGED <<now, scannerOpened, scanLoopTimer, isScanning, lastFailedAt,
                 pendingManualScan, lastReconnectAt, consecutiveScanAutoTimeouts,
                 ps, queuedTimers, document, captured, timeoutsSinceSuccess, staged, libVars>>

\* scanner.init() answered (inited) or failed / timed out
RcInitDone(r, inited) ==
  /\ rc[r].pc = "init"
  /\ IF inited
     THEN /\ rc' = [rc EXCEPT ![r].pc = "open"]
          /\ obs' = NoObs
          /\ UNCHANGED <<scannerOpened, isScanning, ps, pendingManualScan,
                         lastFailedAt, queuedTimers>>
     ELSE /\ scannerOpened' = FALSE
          /\ rc' = [rc EXCEPT ![r] = IdleRc]
          /\ ReturnFromReconnect(r, FALSE, <<StatusEvent(FALSE, "dll")>>)
  /\ UNCHANGED <<now, scanner, scanLoopTimer, lastReconnectAt,
                 consecutiveScanAutoTimeouts, document, captured,
                 timeoutsSinceSuccess, staged, libVars>>

\* the loop never resumed by the sequence
ResumeNever(success, wasRunning) == FALSE

\* `if (success && wasRunning) startScanLoop();`
ResumeLoop(success, wasRunning) == success /\ wasRunning

\* the device marked open whatever scanner.open() answered
OpenedRegardless(success) == TRUE

\* `scannerOpened = success;` in tryOpenDevice
OpenedAfterTryOpen(success) == success

\* tryOpenDevice(): scanner.open() answered with success, or failed / timed out
RcOpenDone(r, success) ==
  /\ rc[r].pc = "open"
  /\ scannerOpened' = OpenedAfterTryOpen(success)
  /\ scanLoopTimer' = IF ResumeLoop(success, rc[r].wasRunning) THEN TRUE ELSE scanLoopTimer
  /\ rc' = [rc EXCEPT ![r] = IdleRc]
  /\ ReturnFromReconnect(r, success, <<StatusEvent(success, "none")>>)
  /\ UNCHANGED <<now, scanner, lastReconnectAt, consecutiveScanAutoTimeouts,
                 document, captured, timeoutsSinceSuccess, staged, libVars>>

(* ---- performScan: the scan step --------------------------------------- *)
\* the no-document return taken as a failure with backoff
BackoffOnNoDocument == now

\* lastFailedAt as `if (!scanResult?.success) return;` leaves it
AfterNoDocument == lastFailedAt

\* the reset reached whatever scanAuto answered
ResetAfterAnyAnswer(success) == TRUE

\* `if (!scanResult?.success) return;` stands before the reset of the
\* counter: only an answer with success reaches it
ReachesReset(success) == success

\* scanAuto answered { success: false }: `return; // no document`
ScanAutoNoDocument(s) ==
  /\ ps[s].pc = "scan"
  /\ Finally(s, AfterNoDocument)
  /\ consecutiveScanAutoTimeouts' = IF ReachesReset(FALSE) THEN 0
                                     ELSE consecutiveScanAutoTimeouts
  /\ obs' = [NoObs EXCEPT !.ret = "scan:noDocument"]
  /\ UNCHANGED <<now, scanner, scannerOpened, scanLoopTimer, lastReconnectAt,
                 rc, document, captured, timeoutsSinceSuccess, staged, libVars>>

\* the reset left out
CounterKept == consecutiveScanAutoTimeouts

\* `consecutiveScanAutoTimeouts = 0;` after a successful scanAuto
CounterAfterSuccess == 0

\* scanAuto answered { success: true, type }
ScanAutoSuccess(s, type) ==
  /\ ps[s].pc = "scan"
  /\ consecutiveScanAutoTimeouts' = CounterAfterSuccess
  /\ timeoutsSinceSuccess' = 0
  /\ ps' = [ps EXCEPT ![s] = [IdleFrame EXCEPT !.pc = "images", !.type = type,
                                                !.presented = (document = "present")]]
  /\ obs' = NoObs
  /\ UNCHANGED <<now, scanner, scannerOpened, scanLoopTimer, isScanning,
                 lastFailedAt, pendingManualScan, lastReconnectAt, rc,
                 queuedTimers, document, captured, staged, libVars>>

\* the same answer where the physical document is modelled: the sensors
\* report a document only when one lies on the scanner
ScanAutoSuccessOfDocument(s, type) ==
  /\ document = "present"
  /\ ScanAutoSuccess(s, type)

\* the threshold compared with > instead of >=
AtThresholdLate(c) == c > TIMEOUT_THRESHOLD

\* the threshold reached one timeout early
AtThresholdEarly(c) == c >= TIMEOUT_THRESHOLD - 1

\* `if (consecutiveScanAutoTimeouts >= 3)` in the catch block
AtThreshold(c) == c >= TIMEOUT_THRESHOLD

\* the increment left out
CounterNotRaised(c) == c

\* `consecutiveScanAutoTimeouts++`
CounterAfterTimeout(c) == c + 1

\* the catch block for an error whose message contains 'timed out'
CatchTimedOut(s) ==
  /\ consecutiveScanAutoTimeouts' = CounterAfterTimeout(consecutiveScanAutoTimeouts)
  /\ IF AtThreshold(CounterAfterTimeout(consecutiveScanAutoTimeouts))
     THEN /\ scanLoopTimer' = FALSE
          /\ Finally(s, now)
          /\ obs' = [NoObs EXCEPT !.sent = <<StatusEvent(scannerOpened, "timeouts")>>,
                                  !.timedOut = "scanAuto"]
          /\ UNCHANGED <<lastReconnectAt, rc>>
     ELSE IF ReconnectSuppressed
          THEN /\ Finally(s, lastFailedAt)
               /\ obs' = [NoObs EXCEPT !.timedOut = "scanAuto", !.ret = "reconnect:false",
                                       !.reconnect = "suppressed"]
               /\ UNCHANGED <<lastReconnectAt, rc, scanLoopTimer>>
          ELSE /\ BeginReconnect(<<"scan", s>>)
               /\ ps' = [ps EXCEPT ![s].pc = "reconnect"]
               /\ obs' = [NoObs EXCEPT !.timedOut = "scanAuto", !.reconnect = "started"]
               /\ UNCHANGED <<isScanning, pendingManualScan, lastFailedAt,
                              queuedTimers>>

\* the 12 s deadline of scanStep expired
ScanAutoTimeout(s) ==
  /\ ps[s].pc = "scan"
  /\ DeadlineFires("scanAuto")
  /\ consecutiveScanAutoTimeouts < MaxTimeouts
  /\ CatchTimedOut(s)
  /\ timeoutsSinceSuccess' = timeoutsSinceSuccess + 1
  /\ UNCHANGED <<now, scanner, scannerOpened, document, captured, staged, libVars>>

\* scanAuto rejected for another reason (worker error, worker torn down):
\* the catch block only logs
ScanAutoError(s) ==
  /\ ps[s].pc = "scan"
  /\ Finally(s, lastFailedAt)
  /\ obs' = NoObs
  /\ UNCHANGED <<now, scanner, scannerOpened, scanLoopTimer, lastReconnectAt,
                 consecutiveScanAutoTimeouts, rc, document, captured,
                 timeoutsSinceSuccess, staged, libVars>>

(* ---- performScan: images, type detection, extraction ------------------ *)
\* the failure not stamped: lastFailedAt left as it was
FailedKept == lastFailedAt

\* `lastFailedAt = Date.now();` where the primary image is missing, and in
\* the two failure paths that clean up
FailedAtMissingImage == now

FailedAtCleanup == now

\* `lastFailedAt = Date.now(); return;` where the primary image is missing
FailWithBackoff(s, o) ==
  /\ Finally(s, FailedAtMissingImage)
  /\ obs' = o
  /\ UNCHANGED <<captured, staged, libVars>>

\* the unlink of the secondary image left out
UnlinkPrimaryOnly(disk, images) == disk \ (images \cap {"bmp"})

\* `if (images.bmpPath && fs.existsSync(images.bmpPath)) fs.unlinkSync(...)`
\* and the same for images.irPath
Unlink(disk, images) == disk \ images

\* the failure path of an attempt that has its images: lastFailedAt is set,
\* the staged files are unlinked, scanner.resetState() is called under a
\* try/catch (resetState is not a method of ScannerClient: the call throws a
\* TypeError, which the catch swallows), and the attempt returns
FailWithCleanup(s, o) ==
  /\ Finally(s, FailedAtCleanup)
  /\ staged' = Unlink(staged, ps[s].images)
  /\ UNCHANGED libVars
  /\ obs' = [o EXCEPT !.posted = Posts("resetState"),
                      !.unlinked = staged \ Unlink(staged, ps[s].images)]
  /\ UNCHANGED captured

\* the observation of a device step; timedOut says whether a call of the
\* step was abandoned at its deadline (the step catches that itself)
CallObs(timedOut, call) == [NoObs EXCEPT !.timedOut = IF timedOut THEN call ELSE "none"]

\* what the device can have written when waitImagesStep is over: nothing,
\* the primary image, or both (the secondary is written after the primary)
StagedSets == {{}, {"bmp"}, {"bmp", "ir"}}

\* waitImagesStep is over: files are the staged images on disk at that time
\* (the device writes none later), and the step returns their paths
ImagesDone(s, files) ==
  /\ ps[s].pc = "images"
  /\ IF "bmp" \notin files
     THEN /\ files = staged
          /\ FailWithBackoff(s, [NoObs EXCEPT !.ret = "images:missing"])
     ELSE /\ staged' = files
          /\ UNCHANGED libVars
          /\ ps' = [ps EXCEPT ![s].pc = "docType", ![s].images = files]
          /\ obs' = NoObs
          /\ UNCHANGED <<isScanning, pendingManualScan, lastFailedAt, queuedTimers,
                         captured>>
  /\ UNCHANGED <<now, scanner, scannerOpened, scanLoopTimer, lastReconnectAt,
                 consecutiveScanAutoTimeouts, rc, document, timeoutsSinceSuccess>>

\* the branch for cards of unknown type left out
NeverUnknownCard(type, dt) == FALSE

\* `scanResult.type === 'card' && (!docType || docType.name === 'UNKNOWN')`
CardOfUnknownType(type, dt) == type = "card" /\ dt \in {"null", "UNKNOWN"}

\* the MRZ path taken on the detected type alone
MrzPathByDetectedType(type, dt) == dt = "PASSPORT"

\* `docType?.name === 'PASSPORT' || scanResult.type === 'passport'`
TakesMrzPath(type, dt) == dt = "PASSPORT" \/ type = "passport"

\* docTypeStepWithRetry(3, 300) is over with result dt (a name, or "null"),
\* and performScan branches on it
DocTypeDone(s, dt, timedOut) ==
  /\ ps[s].pc = "docType"
  /\ timedOut => DeadlineFires("getDocumentType")
  /\ IF CardOfUnknownType(ps[s].type, dt)
     THEN FailWithCleanup(s, CallObs(timedOut, "getDocumentType"))
     ELSE /\ ps' = [ps EXCEPT ![s].pc = IF TakesMrzPath(ps[s].type, dt)
                                        THEN "mrz" ELSE "ocr",
                              ![s].type = "none",
                              ![s].docType = dt]
          /\ obs' = CallObs(timedOut, "getDocumentType")
          /\ UNCHANGED <<isScanning, pendingManualScan, lastFailedAt, queuedTimers,
                         captured, staged, libVars>>
  /\ UNCHANGED <<now, scanner, scannerOpened, scanLoopTimer, lastReconnectAt,
                 consecutiveScanAutoTimeouts, rc, document, timeoutsSinceSuccess>>

\* the attempt is recognized: the staged files are renamed, the transcript
\* and the JSON are written (documentData is not null here), the
\* scan-result event is sent and the cool-down sleep(1200) starts
Recognized(s, o) ==
  /\ ps' = [ps EXCEPT ![s] = [IdleFrame EXCEPT !.pc = "cooldown", !.since = now]]
  /\ captured' = (captured \/ ps[s].presented)
  /\ staged' = staged \ ps[s].images
  /\ UNCHANGED libVars
  /\ obs' = [o EXCEPT !.sent = <<ResultEvent(IF ps[s].docType = "null" THEN "UNKNOWN"
                                              ELSE ps[s].docType,
                                              o.documentData.documentType)>>,
                      !.wrote = (staged \cap ps[s].images) \cup {"txt", "json"}]
  /\ UNCHANGED <<isScanning, pendingManualScan, lastFailedAt, queuedTimers>>

\* the getter ocrStep polls for a detected card type
OcrGetter(name) ==
  CASE name = "ID_CARD" -> "readIDCard"
    [] name = "DRIVER_LICENSE" -> "readDriverLicense"
    [] OTHER -> "readAlienCard"

\* the extraction stage is over with mrzText and documentData: performScan
\* tests `recognized` and saves and notifies, or cleans up and backs off
AfterExtraction(s, mrzText, documentData, timedOut, call) ==
  LET o == [CallObs(timedOut, call) EXCEPT !.mrzText = mrzText,
                                           !.documentData = documentData]
  IN  IF RecognizedBy(mrzText, documentData)
      THEN Recognized(s, o)
      ELSE FailWithCleanup(s, o)

\* mrzStep (passport path) is over; mrz is the readMRZ answer that decides
MrzDone(s, mrz, timedOut) ==
  /\ ps[s].pc = "mrz"
  /\ timedOut => DeadlineFires("readMRZ")
  /\ AfterExtraction(s, MrzStepResult(mrz), PassportData(MrzStepResult(mrz)),
                     timedOut, "readMRZ")
  /\ UNCHANGED <<now, scanner, scannerOpened, scanLoopTimer, lastReconnectAt,
                 consecutiveScanAutoTimeouts, rc, document, timeoutsSinceSuccess>>

\* ocrStep (card path) is over; v is the getter answer that decides
OcrDone(s, v, timedOut) ==
  /\ ps[s].pc = "ocr"
  /\ timedOut => DeadlineFires(OcrGetter(ps[s].docType))
  /\ AfterExtraction(s, EmptyMrz, OcrStepResult(ps[s].docType, v), timedOut,
                     OcrGetter(ps[s].docType))
  /\ UNCHANGED <<now, scanner, scannerOpened, scanLoopTimer, lastReconnectAt,
                 consecutiveScanAutoTimeouts, rc, document, timeoutsSinceSuccess>>

\* `await sleep(1200)` is over; the finally block runs
CooldownDone(s) ==
  /\ ps[s].pc = "cooldown"
  /\ now - ps[s].since >= COOLDOWN_MS
  /\ Finally(s, lastFailedAt)
  /\ obs' = NoObs
  /\ UNCHANGED <<now, scanner, scannerOpened, scanLoopTimer, lastReconnectAt,
                 consecutiveScanAutoTimeouts, rc, document, captured,
                 timeoutsSinceSuccess, staged, libVars>>

(* ---- the system -------------------------------------------------------- *)
\* the image, type-detection and extraction steps of performScan, for a
\* device that writes one of the file sets in files and answers readMRZ and
\* the OCR getters with the values in mrzs and values
Stages(files, mrzs, values) ==
  \/ \E s \in Slots, f \in files : ImagesDone(s, f)
  \/ \E s \in Slots, dt \in DocNames \cup {"null"}, timedOut \in BOOLEAN :
       DocTypeDone(s, dt, timedOut)
  \/ \E s \in Slots, mrz \in mrzs, timedOut \in BOOLEAN : MrzDone(s, mrz, timedOut)
  \/ \E s \in Slots, v \in values, timedOut \in BOOLEAN : OcrDone(s, v, timedOut)

\* the other steps of an attempt and of the reconnect sequence, the clock,
\* the loop timer, the manual-scan handler and its queued timer
AttemptSteps ==
  \/ Tick
  \/ LoopTick
  \/ ManualScan
  \/ QueuedTimerFire
  \/ \E r \in RcIds : RcCloseDone(r)
  \/ \E r \in RcIds : RcPauseDone(r)
  \/ \E r \in RcIds, terminated \in BOOLEAN : RcDestroyDone(r, terminated)
  \/ \E r \in RcIds, inited \in BOOLEAN : RcInitDone(r, inited)
  \/ \E r \in RcIds, success \in BOOLEAN : RcOpenDone(r, success)
  \/ \E s \in Slots : ScanAutoNoDocument(s)
  \/ \E s \in Slots : ScanAutoTimeout(s)
  \/ \E s \in Slots : ScanAutoError(s)
  \/ \E s \in Slots : CooldownDone(s)

\* one text that mrzStep rejects and one that it returns; one getter answer
\* that isLikelyValidOcr rejects and one that it accepts
SomeMrzTexts == {EmptyMrz, [p |-> TRUE, len |-> 60, ws |-> 0]}

SomeOcrValues == {NullData, [documentType |-> "unset", numberOk |-> TRUE, nameLen |-> 2]}

\* every callback of the main process but the answers of scanAuto that
\* report a document; the device writes the primary image or nothing
Orchestration ==
  \/ AttemptSteps
  \/ StartScanLoopIpc
  \/ StopScanLoopIpc
  \/ IpcReconnect
  \/ Stages({{}, {"bmp"}}, SomeMrzTexts, SomeOcrValues)

\* the orchestrator against a device whose answers are unconstrained
Next ==
  \/ Orchestration
  \/ \E s \in Slots, type \in {"passport", "card"} : ScanAutoSuccess(s, type)

Spec == Init /\ [][Next]_vars

\* the orchestrator with the physical document: documents are placed and
\* removed, and scanAuto reports a document only when one is there
NextDocument ==
  \/ Orchestration
  \/ PlaceDocument
  \/ RemoveDocument
  \/ \E s \in Slots, type \in {"passport", "card"} : ScanAutoSuccessOfDocument(s, type)

SpecDocument == Init /\ [][NextDocument]_vars

\* the attempts of the loop and of manual requests, without the other
\* renderer requests, against every staged-file set, MRZ text and getter
\* answer of the model
NextExtraction ==
  \/ AttemptSteps
  \/ Stages(StagedSets, MrzTexts, OcrValues)
  \/ \E s \in Slots, type \in {"passport", "card"} : ScanAutoSuccess(s, type)

SpecExtraction == Init /\ [][NextExtraction]_vars

\* What happens to activation s of performScan and to the reconnect sequence
\* it called when the device answers nothing and writes nothing: every
\* deadline fires, the bounded polls and the sleeps run out.
DeadlineStep(s) ==
  \/ ScanAutoTimeout(s)
  \/ ImagesDone(s, {})
  \/ DocTypeDone(s, "null", TRUE)
  \/ MrzDone(s, EmptyMrz, TRUE)
  \/ OcrDone(s, NullData, TRUE)
  \/ CooldownDone(s)
  \/ RcCloseDone(<<"scan", s>>)
  \/ RcPauseDone(<<"scan", s>>)
  \/ RcDestroyDone(<<"scan", s>>, FALSE)
  \/ RcInitDone(<<"scan", s>>, FALSE)
  \/ RcOpenDone(<<"scan", s>>, FALSE)

\* timers fire: the event loop runs a timer callback that is due, and time
\* passes. Nothing is assumed of the device.
TimersFire ==
  /\ WF_vars(Tick)
  /\ WF_vars(QueuedTimerFire)
  /\ \A s \in Slots : WF_vars(DeadlineStep(s))

SpecTimers == SpecExtraction /\ TimersFire

(* ======================================================================= *)
(* ScannerClient: the pending-request table                                *)
(* ======================================================================= *)

\* exit codes of a worker thread: 0 when it ends by itself, 1 after an
\* uncaught exception or worker.terminate()
ExitCodes == {0, 1}

\* every exit taken for a clean one
AnyExitClean(code) == TRUE

\* `if (code === 0) return;` of the 'exit' handler
CleanExit(code) == code = 0

\* `for (const [, p] of this._pending) p.reject(err); this._pending.clear();`
RejectAllPending ==
  /\ promises' = [id \in DOMAIN promises |->
                    IF id \in pending THEN "rejected" ELSE promises[id]]
  /\ pending' = {}

\* _call(cmd, args): the request takes the next id, its promise is put in the
\* table and the message is posted (a worker that has ended drops it)
Call ==
  /\ reqId <= MaxRequests
  /\ reqId' = reqId + 1
  /\ pending' = pending \cup {reqId}
  /\ promises' = Append(promises, "pending")
  /\ ret' = NoRet
  /\ UNCHANGED <<worker, arg, poll, mainVars>>

\* every id taken for one with an entry in the table
AlwaysInTable(id) == TRUE

\* `const p = this._pending.get(id); if (!p) return;` lets through the ids
\* that have an entry
InTable(id) == id \in pending

\* the 'message' handler, handed a message with this id by the running
\* worker, a result or an __error: the entry of a pending request is deleted
\* and its promise settled, a message with another id is dropped (ret says
\* which message the handler was handed and whether it found an entry)
WorkerMessage(id, error) ==
  /\ worker = "running"
  /\ IF InTable(id)
     THEN /\ pending' = pending \ {id}
          /\ promises' = [j \in DOMAIN promises |->
                            IF j # id THEN promises[j]
                            ELSE IF error THEN "rejected" ELSE "resolved"]
     ELSE UNCHANGED <<pending, promises>>
  /\ ret' = [fn |-> "message", value |-> [id |-> id, found |-> id \in pending]]
  /\ UNCHANGED <<reqId, worker, arg, poll, mainVars>>

\* the 'error' handler: an uncaught exception in the worker
WorkerError ==
  /\ worker = "running"
  /\ worker' = "errored"
  /\ RejectAllPending
  /\ ret' = NoRet
  /\ UNCHANGED <<reqId, arg, poll, mainVars>>

\* the 'exit' handler: the worker ends by itself (code 0), is terminated
\* (code 1), or exits after its 'error' event (code 1)
WorkerExit(code) ==
  /\ worker \in {"running", "errored"}
  /\ worker = "errored" => code = 1
  /\ worker' = IF code = 0 THEN "exited:0" ELSE "exited:1"
  /\ IF CleanExit(code)
     THEN UNCHANGED <<pending, promises>>
     ELSE RejectAllPending
  /\ ret' = NoRet
  /\ UNCHANGED <<reqId, arg, poll, mainVars>>

NextClient ==
  \/ Call
  \/ \E id \in 1..MaxRequests, error \in BOOLEAN : WorkerMessage(id, error)
  \/ WorkerError
  \/ \E code \in ExitCodes : WorkerExit(code)

\* one ScannerClient and its worker, the main process at rest
InitClient == Init /\ scannerOpened = TRUE

SpecClient == InitClient /\ [][NextClient]_vars

(* ======================================================================= *)
(* The MRZ parser (lib/mrz-parser.js)                                      *)
(* ======================================================================= *)
\* A JavaScript string is the sequence of its characters, each a string of
\* length one; str.replace(/<class>/g, '') is SelectSeq with the test for the
\* characters outside the class.

Digits == <<"0", "1", "2", "3", "4", "5", "6", "7", "8", "9">>

Uppers == <<"A", "B", "C", "D", "E", "F", "G", "H", "I", "J", "K", "L", "M",
            "N", "O", "P", "Q", "R", "S", "T", "U", "V", "W", "X", "Y", "Z">>

Range(f) == {f[i] : i \in DOMAIN f}

IndexOf(f, c) == CHOOSE i \in DOMAIN f : f[i] = c

\* char.charCodeAt(0), for the characters of the model
charCodeAt(c) ==
  CASE c \in Range(Digits) -> 47 + IndexOf(Digits, c)
    [] c \in Range(Uppers) -> 64 + IndexOf(Uppers, c)
    [] c = "\t" -> 9
    [] c = "\n" -> 10
    [] c = "\r" -> 13
    [] c = " " -> 32
    [] c = "*" -> 42
    [] c = "-" -> 45
    [] c = "." -> 46
    [] c = "/" -> 47
    [] c = ":" -> 58
    [] c = "<" -> 60
    [] c = ">" -> 62
    [] c = "?" -> 63
    [] c = "_" -> 95
    [] c = "a" -> 97
    [] c = "|" -> 124
    [] c = "~" -> 126

\* the character classes of the regular expressions and comparisons
Between(c, lo, hi) == charCodeAt(lo) <= charCodeAt(c) /\ charCodeAt(c) <= charCodeAt(hi)

IsDigit(c) == Between(c, "0", "9")

IsUpper(c) == Between(c, "A", "Z")

IsControl(c) == charCodeAt(c) <= 31

\* white space as trim() and \s know it
IsSpace(c) == c \in {" ", "\t", "\n", "\r"}

\* str.substring(from, to), 0-based, to exclusive, both clamped
substring(str, from, to) ==
  LET a == IF from > Len(str) THEN Len(str) ELSE from
      b == IF to > Len(str) THEN Len(str) ELSE to
  IN  IF a >= b THEN <<>> ELSE SubSeq(str, a + 1, b)

\* str.padEnd(n, c): never shortens
padEnd(str, n, c) ==
  IF Len(str) >= n THEN str ELSE str \o [i \in 1..(n - Len(str)) |-> c]

\* str.trim()
RECURSIVE trimStart(_)
trimStart(str) ==
  IF str # <<>> /\ IsSpace(Head(str)) THEN trimStart(Tail(str)) ELSE str

RECURSIVE trimEnd(_)
trimEnd(str) ==
  IF str # <<>> /\ IsSpace(str[Len(str)])
  THEN trimEnd(SubSeq(str, 1, Len(str) - 1)) ELSE str

trim(str) == trimEnd(trimStart(str))

\* str.split(c): the pieces between the occurrences of c, empty ones included
RECURSIVE split(_, _)
split(str, c) ==
  IF \A i \in DOMAIN str : str[i] # c
  THEN <<str>>
  ELSE LET i == CHOOSE j \in DOMAIN str :
                  str[j] = c /\ \A k \in 1..(j - 1) : str[k] # c
       IN  <<SubSeq(str, 1, i - 1)>> \o split(SubSeq(str, i + 1, Len(str)), c)

NotControl(c) == ~IsControl(c)

NotCarriageReturn(c) == c # "\r"

NotNewline(c) == c # "\n"

NotFiller(c) == c # "<"

NotEmpty(part) == Len(part) > 0

\* [^A-Z0-9<\n] is dropped
MrzAllowed(c) == IsUpper(c) \/ IsDigit(c) \/ c = "<" \/ c = "\n"

\* str.replace(/ /g, '<')
SpacesToFillers(str) == [i \in DOMAIN str |-> IF str[i] = " " THEN "<" ELSE str[i]]

\* the width of a TD3 line
LINE_WIDTH == 44

\* str.search(/[A-Z]{1,2}\d{5,}/): the 0-based index of the first match, -1
\* without one
SignatureAt(str, i) ==
  /\ IsUpper(str[i])
  /\ \/ /\ i + 5 <= Len(str)
        /\ \A k \in (i + 1)..(i + 5) : IsDigit(str[k])
     \/ /\ i + 6 <= Len(str)
        /\ IsUpper(str[i + 1])
        /\ \A k \in (i + 2)..(i + 6) : IsDigit(str[k])

searchSignature(str) ==
  IF \E i \in DOMAIN str : SignatureAt(str, i)
  THEN (CHOOSE i \in DOMAIN str :
          SignatureAt(str, i) /\ \A k \in 1..(i - 1) : ~SignatureAt(str, k)) - 1
  ELSE -1

\* the values normalizeMrz returns: null, or { line1, line2 }
NullRecord == [isNull |-> TRUE, line1 |-> <<>>, line2 |-> <<>>]

MrzRecord(line1, line2) == [isNull |-> FALSE, line1 |-> line1, line2 |-> line2]

\* the first cleaning steps of normalizeMrz, up to the split into lines
\* (the class of control characters contains the line feed)
Cleaned(mrzRaw) ==
  SelectSeq(SpacesToFillers(trim(SelectSeq(SelectSeq(mrzRaw, NotControl), NotCarriageReturn))),
       MrzAllowed)

\* the damaged-capture branch without the signature split
NaiveSplitOnly(cleaned) ==
  MrzRecord(padEnd(substring(cleaned, 0, LINE_WIDTH), LINE_WIDTH, "<"),
            padEnd(substring(cleaned, LINE_WIDTH, Len(cleaned)), LINE_WIDTH, "<"))

\* 44 <= cleaned.length < 88
DamagedSplit(cleaned) ==
  LET line2Start == searchSignature(cleaned)
  IN  IF line2Start > 0
      THEN MrzRecord(padEnd(substring(cleaned, 0, line2Start), LINE_WIDTH, "<"),
                     padEnd(substring(cleaned, line2Start, Len(cleaned)), LINE_WIDTH, "<"))
      ELSE NaiveSplitOnly(cleaned)

normalizeMrz(mrzRaw) ==
  IF mrzRaw = <<>> THEN NullRecord
  ELSE
    LET cleaned == Cleaned(mrzRaw)
        parts == SelectSeq(split(cleaned, "\n"), NotEmpty)
        joined == SelectSeq(cleaned, NotNewline)
    IN  IF Len(parts) >= 2
        THEN MrzRecord(substring(padEnd(parts[1], LINE_WIDTH, "<"), 0, LINE_WIDTH),
                       substring(padEnd(parts[2], LINE_WIDTH, "<"), 0, LINE_WIDTH))
        ELSE IF Len(joined) >= 2 * LINE_WIDTH
        THEN MrzRecord(substring(joined, 0, LINE_WIDTH),
                       substring(joined, LINE_WIDTH, 2 * LINE_WIDTH))
        ELSE IF Len(joined) >= LINE_WIDTH
        THEN DamagedSplit(joined)
        ELSE NullRecord

\* the two lines of the specimen passport
SampleLine1 ==
  <<"P", "<", "U", "T", "O", "E", "R", "I", "K", "S", "S", "O", "N", "<",
    "<", "A", "N", "N", "A", "<", "M", "A", "R", "I", "A", "<", "<", "<",
    "<", "<", "<", "<", "<", "<", "<", "<", "<", "<", "<", "<", "<", "<",
    "<", "<">>

SampleLine2 ==
  <<"L", "8", "9", "8", "9", "0", "2", "C", "<", "3", "U", "T", "O", "6",
    "9", "0", "8", "0", "6", "1", "F", "9", "4", "0", "6", "2", "3", "6",
    "Z", "E", "1", "8", "4", "2", "2", "6", "B", "<", "<", "<", "<", "<",
    "1", "4">>

\* mrzCharValue(char)
mrzCharValue(char) ==
  IF Between(char, "0", "9") THEN charCodeAt(char) - charCodeAt("0")
  ELSE IF Between(char, "A", "Z") THEN charCodeAt(char) - charCodeAt("A") + 10
  ELSE IF char = "<" THEN 0
  ELSE 0

\* the weights in the opposite order
weightsReversed == [i \in 0..2 |-> IF i = 0 THEN 1 ELSE IF i = 1 THEN 3 ELSE 7]

\* `const weights = [7, 3, 1];`, indexed from 0
weights == [i \in 0..2 |-> IF i = 0 THEN 7 ELSE IF i = 1 THEN 3 ELSE 1]

\* the loop of mrzChecksum: sum over str[0..n-1]
RECURSIVE ChecksumSum(_, _)
ChecksumSum(str, n) ==
  IF n = 0 THEN 0
  ELSE ChecksumSum(str, n - 1) + mrzCharValue(str[n]) * weights[(n - 1) % 3]

mrzChecksum(str) == ChecksumSum(str, Len(str)) % 10

\* str.toUpperCase(), for the characters of the model
toUpperCase(str) == [i \in DOMAIN str |-> IF str[i] = "a" THEN "A" ELSE str[i]]

\* parseInt(str, 10): the number its leading digits spell, NaN without one
\* (the strings of the model carry no sign and no leading white space)
RECURSIVE DigitsValue(_, _)
DigitsValue(str, acc) ==
  IF str = <<>> \/ ~IsDigit(Head(str)) THEN acc
  ELSE DigitsValue(Tail(str), 10 * acc + mrzCharValue(Head(str)))

parseInt(str) ==
  IF str = <<>> \/ ~IsDigit(Head(str))
  THEN [nan |-> TRUE, n |-> 0]
  ELSE [nan |-> FALSE, n |-> DigitsValue(str, 0)]

\* String(n) for a number below 10000, and for NaN
RECURSIVE DecimalOf(_)
DecimalOf(n) ==
  IF n < 10 THEN <<Digits[n + 1]>> ELSE DecimalOf(n \div 10) \o <<Digits[(n % 10) + 1]>>

NumberToString(v) == IF v.nan THEN <<"N", "a", "N">> ELSE DecimalOf(v.n)

\* the pivot one year early: 50 taken for 1950
CenturyPivotEarly(year) == IF year >= 50 THEN 1900 + year ELSE 2000 + year

\* `year = year > 50 ? 1900 + year : 2000 + year;`
CenturyOf(year) == IF year > 50 THEN 1900 + year ELSE 2000 + year

\* formatMrzDate(dateStr): YYMMDD to YYYY-MM-DD (NaN > 50 is false and
\* 2000 + NaN is NaN)
formatMrzDate(dateStr) ==
  IF dateStr = <<>> \/ Len(dateStr) # 6 THEN <<>>
  ELSE
    LET yy == parseInt(substring(dateStr, 0, 2))
        month == substring(dateStr, 2, 4)
        day == substring(dateStr, 4, 6)
        year == IF yy.nan THEN yy ELSE [nan |-> FALSE, n |-> CenturyOf(yy.n)]
    IN  NumberToString(year) \o <<"-">> \o month \o <<"-">> \o day

\* the values extractPassportNo returns: the number or null, with whether
\* the mismatch line was logged
PassportNo(isNull, text, logged) == [isNull |-> isNull, text |-> text, logged |-> logged]

\* a mismatch taken for a failure
RejectOnMismatch(passportNo, mismatch) == mismatch \/ passportNo = <<>>

\* `return passportNo || null;`: the checksum comparison only logs
ReturnsNull(passportNo, mismatch) == passportNo = <<>>

extractPassportNo(mrzRaw) ==
  LET normalized == normalizeMrz(mrzRaw)
  IN  IF normalized.isNull THEN PassportNo(TRUE, <<>>, FALSE)
      ELSE
        LET line2 == normalized.line2
            passportField == substring(line2, 0, 9)
            checkDigit == substring(line2, 9, 10)
            passportNo == toUpperCase(SelectSeq(passportField, NotFiller))
            calculatedCheck == mrzChecksum(passportField)
            mismatch == /\ checkDigit # <<>>
                        /\ Between(checkDigit[1], "0", "9")
                        /\ parseInt(checkDigit).n # calculatedCheck
        IN  IF ReturnsNull(passportNo, mismatch)
            THEN PassportNo(TRUE, <<>>, mismatch)
            ELSE PassportNo(FALSE, passportNo, mismatch)

\* str.replace(/</g, ' ')
FillersToSpaces(str) == [i \in DOMAIN str |-> IF str[i] = "<" THEN " " ELSE str[i]]

\* str.split('<<'): the pieces between the occurrences of the double filler
RECURSIVE splitOnDoubleFiller(_)
splitOnDoubleFiller(str) ==
  LET At(i) == i + 1 <= Len(str) /\ str[i] = "<" /\ str[i + 1] = "<"
  IN  IF \A i \in DOMAIN str : ~At(i)
      THEN <<str>>
      ELSE LET i == CHOOSE j \in DOMAIN str : At(j) /\ \A k \in 1..(j - 1) : ~At(k)
           IN  <<SubSeq(str, 1, i - 1)>>
                 \o splitOnDoubleFiller(SubSeq(str, i + 2, Len(str)))

\* `const sex = line2[20];`
SEX_COLUMN == 20

\* sex read one column late
SexColumnLate(line2) == substring(line2, SEX_COLUMN + 1, SEX_COLUMN + 2)

\* line2[20], as a string
SexColumn(line2) == substring(line2, SEX_COLUMN, SEX_COLUMN + 1)

\* `sex === 'M' ? 'Male' : sex === 'F' ? 'Female' : 'Unknown'`
SexOf(sex) ==
  IF sex = <<"M">> THEN "Male" ELSE IF sex = <<"F">> THEN "Female" ELSE "Unknown"

\* the value parseMrzFull returns for no record
NullParsed == [isNull |-> TRUE]

parseMrzFull(mrzRaw) ==
  LET normalized == normalizeMrz(mrzRaw)
  IN  IF normalized.isNull THEN NullParsed
      ELSE
        LET line1 == normalized.line1
            line2 == normalized.line2
            namePart == substring(line1, 5, 44)
            nameSplit == splitOnDoubleFiller(namePart)
            surname == trim(FillersToSpaces(nameSplit[1]))
            givenNames == IF Len(nameSplit) >= 2
                          THEN trim(FillersToSpaces(nameSplit[2])) ELSE <<>>
        IN  [isNull |-> FALSE,
             documentType |-> SelectSeq(substring(line1, 0, 2), NotFiller),
             issuingCountry |-> SelectSeq(substring(line1, 2, 5), NotFiller),
             surname |-> surname,
             givenNames |-> givenNames,
             fullName |-> trim(surname \o <<" ">> \o givenNames),
             passportNo |-> SelectSeq(substring(line2, 0, 9), NotFiller),
             nationality |-> SelectSeq(substring(line2, 10, 13), NotFiller),
             birthDate |-> formatMrzDate(substring(line2, 13, 19)),
             sex |-> SexOf(SexColumn(line2)),
             expiryDate |-> formatMrzDate(substring(line2, 21, 27)),
             personalNo |-> SelectSeq(substring(line2, 28, 42), NotFiller),
             raw |-> [line1 |-> line1, line2 |-> line2]]

(* ---- the inputs of the parser ------------------------------------------ *)
MaxFieldLen == 4

\* n fillers
Fillers(n) == [i \in 1..n |-> "<"]

\* line 1 of the specimen as captured: cut short, whole, or run on
Line1Lens == {0, 30, 44, 50}

Line1(n) ==
  IF n <= LINE_WIDTH THEN SubSeq(SampleLine1, 1, n)
  ELSE SampleLine1 \o Fillers(n - LINE_WIDTH)

\* line 2 of the specimen with its document number or without one, with the
\* check digit and the sex column as captured, cut short, whole or run on
Line2Lens == {0, 28, 44, 50}

CheckChars == {"3", "0", "<"}

SexChars == {"F", "M", "<"}

Line2(n, numbered, check, sex) ==
  LET number == IF numbered THEN SubSeq(SampleLine2, 1, 9) ELSE Fillers(9)
      whole == number \o <<check>> \o SubSeq(SampleLine2, 11, 20) \o <<sex>>
                 \o SubSeq(SampleLine2, 22, LINE_WIDTH)
  IN  IF n <= LINE_WIDTH THEN SubSeq(whole, 1, n)
      ELSE whole \o Fillers(n - LINE_WIDTH)

\* what stands between the two lines in the raw text
Separators == {<<>>, <<"\n">>, <<"\r", "\n">>, <<" ">>}

\* what stands before them
Leaders == {<<>>, <<" ", "a">>}

\* the specimen with a one-letter nationality, filled up to three columns
OneLetterNationality ==
  SampleLine1 \o [i \in DOMAIN SampleLine2 |->
                    IF i \in {12, 13} THEN "<" ELSE SampleLine2[i]]

MrzRaws ==
  {lead \o Line1(n1) \o sep \o Line2(n2, numbered, check, sex) :
     lead \in Leaders, n1 \in Line1Lens, sep \in Separators, n2 \in Line2Lens,
     numbered \in BOOLEAN, check \in CheckChars, sex \in SexChars}
    \cup {OneLetterNationality}

\* fields for the checksum: every string of up to MaxFieldLen characters
\* over a part of the MRZ alphabet, and the reference field
FieldChars == {"0", "7", "9", "A", "Z", "<"}

ReferenceField == <<"L", "8", "9", "8", "9", "0", "2", "C", "3">>

Fields ==
  UNION {[1..n -> FieldChars] : n \in 0..MaxFieldLen} \cup {ReferenceField}

\* YYMMDD strings for every two-digit year, and strings that are no date
Dates ==
  {<<Digits[a + 1], Digits[b + 1], "0", "8", "0", "6">> : a \in 0..9, b \in 0..9}
    \cup {<<>>, <<"6", "9", "0", "8", "0">>, <<"<", "<", "<", "<", "<", "<">>}

ParserInputs == MrzRaws \cup Fields \cup Dates

\* a call of a function of the module with the argument drawn
Returns(fn, value) ==
  /\ ret.fn = "none"
  /\ ret' = [fn |-> fn, value |-> value]
  /\ UNCHANGED <<arg, reqId, pending, promises, worker, poll, mainVars>>

CallNormalizeMrz == Returns("normalizeMrz", normalizeMrz(arg))

CallMrzChecksum == Returns("mrzChecksum", mrzChecksum(arg))

CallExtractPassportNo == Returns("extractPassportNo", extractPassportNo(arg))

CallParseMrzFull == Returns("parseMrzFull", parseMrzFull(arg))

CallFormatMrzDate == Returns("formatMrzDate", formatMrzDate(arg))

NextParser ==
  \/ CallNormalizeMrz
  \/ CallMrzChecksum
  \/ CallExtractPassportNo
  \/ CallParseMrzFull
  \/ CallFormatMrzDate

\* the main process and the client at rest, one argument drawn
InitParser ==
  /\ OrchestratorStart
  /\ scannerOpened = TRUE
  /\ arg \in ParserInputs
  /\ ret = NoRet
  /\ reqId = 1
  /\ pending = {}
  /\ promises = <<>>
  /\ worker = "running"
  /\ poll = NoPoll

SpecParser == InitParser /\ [][NextParser]_vars

(* ======================================================================= *)
(* Validators and date normalisation of the main process                  *)
(* ======================================================================= *)

AllDigits(str) == \A i \in DOMAIN str : IsDigit(str[i])

\* the hyphen taken for required
HyphenRequired(idNo) ==
  /\ Len(trim(idNo)) = 14
  /\ AllDigits(SubSeq(trim(idNo), 1, 6))
  /\ trim(idNo)[7] = "-"
  /\ AllDigits(SubSeq(trim(idNo), 8, 14))

\* looksLikeKoreanRRN(idNo): /^\d{6}-\d{7}$/ or /^\d{13}$/ on the trimmed
\* text; an absent or empty idNo is refused first
looksLikeKoreanRRN(idNo) ==
  IF idNo = <<>> THEN FALSE
  ELSE
    LET s == trim(idNo)
    IN  \/ /\ Len(s) = 14
           /\ AllDigits(SubSeq(s, 1, 6))
           /\ s[7] = "-"
           /\ AllDigits(SubSeq(s, 8, 14))
        \/ /\ Len(s) = 13
           /\ AllDigits(s)

\* what isLikelyValidOcr looks at in an ID_CARD result: the verdict on the
\* national-id field and `String(documentData.name || '').trim().length`
IdCardEvidence(documentData) ==
  [documentType |-> documentData.documentType,
   numberOk |-> looksLikeKoreanRRN(documentData.idNo),
   nameLen |-> Len(trim(documentData.name))]

\* str.padStart(2, '0') of a number printed in decimal
PadTwo(v) == IF Len(NumberToString(v)) >= 2 THEN NumberToString(v)
             ELSE <<"0">> \o NumberToString(v)

\* the position after the white space that begins at i
RECURSIVE SkipSpaces(_, _)
SkipSpaces(s, i) ==
  IF i <= Len(s) /\ IsSpace(s[i]) THEN SkipSpaces(s, i + 1) ELSE i

IsDateSeparator(s, i) == i <= Len(s) /\ s[i] \in {"-", ".", "/"}

DigitAt(s, i) == i <= Len(s) /\ IsDigit(s[i])

\* one or two digits at i, as many as there are: their end
DigitsEnd(s, i) == IF DigitAt(s, i + 1) THEN i + 2 ELSE i + 1

\* (19\d{2}|20\d{2}) at i
YearAt(s, i) ==
  /\ i + 3 <= Len(s)
  /\ SubSeq(s, i, i + 1) \in {<<"1", "9">>, <<"2", "0">>}
  /\ IsDigit(s[i + 2]) /\ IsDigit(s[i + 3])

\* /(19\d{2}|20\d{2})\s*[-./]\s*(\d{1,2})\s*[-./]\s*(\d{1,2})/ matched at i:
\* the places of its groups (a month cut to one digit cannot be followed by
\* a separator, so the greedy choice is the only one)
DateGroups(s, i) ==
  LET sep1 == SkipSpaces(s, i + 4)
      month == SkipSpaces(s, sep1 + 1)
      monthEnd == DigitsEnd(s, month)
      sep2 == SkipSpaces(s, monthEnd)
      day == SkipSpaces(s, sep2 + 1)
  IN  [matches |-> /\ YearAt(s, i)
                   /\ IsDateSeparator(s, sep1)
                   /\ DigitAt(s, month)
                   /\ IsDateSeparator(s, sep2)
                   /\ DigitAt(s, day),
       yyyy |-> i, month |-> month, monthEnd |-> monthEnd,
       day |-> day, dayEnd |-> DigitsEnd(s, day)]

DateAt(s, i) == DateGroups(s, i).matches

\* `/^\d{8}/.test(compact)`: eight digits or more in the whole input
CompactHasEight(compact) == Len(compact) >= 8

\* normalizeYyyyMmDd(input); null, undefined and '' are the empty text
normalizeYyyyMmDd(input) ==
  LET s == trim(input)
      compact == SelectSeq(s, IsDigit)
  IN  IF s = <<>> THEN <<>>
      ELSE IF CompactHasEight(compact) THEN SubSeq(compact, 1, 8)
      ELSE IF \A i \in DOMAIN s : ~DateAt(s, i) THEN <<>>
      ELSE
        LET i == CHOOSE j \in DOMAIN s : DateAt(s, j) /\ \A k \in 1..(j - 1) : ~DateAt(s, k)
            m == DateGroups(s, i)
        IN  SubSeq(s, m.yyyy, m.yyyy + 3)
              \o PadTwo(parseInt(SubSeq(s, m.month, m.monthEnd - 1)))
              \o PadTwo(parseInt(SubSeq(s, m.day, m.dayEnd - 1)))

(* ---- the inputs of the validators -------------------------------------- *)
\* the digits 1, 2, ..., n
DigitRun(n) == [i \in 1..n |-> Digits[i + 1]]

Hyphens(n) == [i \in 1..n |-> "-"]

\* national-id fields: two runs of digits with hyphens between, bare or
\* with white space or a letter around
IdNos ==
  {lead \o DigitRun(n1) \o Hyphens(h) \o DigitRun(n2) \o trail :
     lead \in {<<>>, <<" ">>}, n1 \in {0, 5, 6, 7}, h \in 0..2, n2 \in {0, 6, 7, 8},
     trail \in {<<>>, <<" ">>, <<"a">>}}

Names == {<<>>, <<"A">>, <<" ", "A", " ">>, <<"A", "B">>, <<" ", "A", "B">>}

IdCardResults ==
  [kind : {"documentData"}, documentType : {"ID_CARD"}, idNo : IdNos, name : Names]

\* date texts: a year, a month and a day with what can stand around and
\* between them
DateTexts ==
  {lead \o yyyy \o sep1 \o mm \o sep2 \o dd \o trail :
     lead \in {<<>>, <<":", "~">>, <<"1", " ">>},
     yyyy \in {<<"2", "0", "1", "1">>, <<"1", "9", "9", "9">>, <<"1", "2", "3", "4">>},
     sep1 \in {<<>>, <<".">>, <<" ", "-", " ">>},
     mm \in {<<"8">>, <<"0", "8">>, <<"1", "2">>},
     sep2 \in {<<>>, <<".">>, <<"/">>},
     dd \in {<<"1">>, <<"1", "0">>},
     trail \in {<<>>, <<".">>, <<" ", "1", "2", ":", "3", "0">>}}
    \cup {<<>>, <<" ">>}

ValidatorInputs == IdCardResults \cup [kind : {"text"}, text : DateTexts]

CallLooksLikeKoreanRRN ==
  /\ arg.kind = "documentData"
  /\ Returns("looksLikeKoreanRRN", looksLikeKoreanRRN(arg.idNo))

CallIsLikelyValidOcr ==
  /\ arg.kind = "documentData"
  /\ Returns("isLikelyValidOcr", isLikelyValidOcr(IdCardEvidence(arg)))

CallNormalizeYyyyMmDd ==
  /\ arg.kind = "text"
  /\ Returns("normalizeYyyyMmDd", normalizeYyyyMmDd(arg.text))

NextValidators ==
  \/ CallLooksLikeKoreanRRN
  \/ CallIsLikelyValidOcr
  \/ CallNormalizeYyyyMmDd

InitValidators ==
  /\ OrchestratorStart
  /\ scannerOpened = TRUE
  /\ arg \in ValidatorInputs
  /\ ret = NoRet
  /\ reqId = 1
  /\ pending = {}
  /\ promises = <<>>
  /\ worker = "running"
  /\ poll = NoPoll

SpecValidators == InitValidators /\ [][NextValidators]_vars

(* ======================================================================= *)
(* The polling functions of performScan                                    *)
(* ======================================================================= *)
\* docTypeStepWithRetry and ocrStep step by step: each action is the run
\* from one await to the next, the answer of the device drawn. A getter
\* abandoned at its deadline or rejected answers null (the .catch of the
\* step). poll.calls are the getter calls issued so far, poll.answers what
\* they answered.

\* `docTypeStepWithRetry(3, 300)` in performScan
maxTries == 3

\* no answer taken for a detected type
DetectedNever(last) == FALSE

\* `last && last.name && last.name !== 'UNKNOWN'`
Detected(last) == last # "null" /\ last # "UNKNOWN"

\* docTypeStepWithRetry is called: i = 0 and the first docTypeStep() awaited
CallDocTypeStepWithRetry ==
  /\ poll.fn = "none"
  /\ poll' = [fn |-> "docTypeStepWithRetry", pc |-> "await", i |-> 0, last |-> "null",
              calls |-> <<"getDocumentType">>, answers |-> <<>>, value |-> "none"]
  /\ UNCHANGED <<arg, ret, reqId, pending, promises, worker, mainVars>>

\* docTypeStep() answered dt: returned when a type is detected, else
\* sleep(delayMs) begins
DocTypeAnswered(dt) ==
  /\ poll.fn = "docTypeStepWithRetry" /\ poll.pc = "await"
  /\ poll' = [poll EXCEPT !.last = dt,
                          !.answers = Append(@, dt),
                          !.pc = IF Detected(dt) THEN "returned" ELSE "sleep",
                          !.value = IF Detected(dt) THEN dt ELSE @]
  /\ UNCHANGED <<arg, ret, reqId, pending, promises, worker, mainVars>>

\* the sleep is over: i++, and the next docTypeStep() or `return last`
DocTypeSleepDone ==
  /\ poll.fn = "docTypeStepWithRetry" /\ poll.pc = "sleep"
  /\ poll' = IF poll.i + 1 < maxTries
             THEN [poll EXCEPT !.i = @ + 1, !.pc = "await",
                               !.calls = Append(@, "getDocumentType")]
             ELSE [poll EXCEPT !.i = @ + 1, !.pc = "returned", !.value = poll.last]
  /\ UNCHANGED <<arg, ret, reqId, pending, promises, worker, mainVars>>

\* the polls ocrStep makes for a type: `i < 4`, `i < 8`, `i < 4`, `round < 2`
OcrRounds(name) ==
  CASE name = "ID_CARD" -> 4
    [] name = "DRIVER_LICENSE" -> 8
    [] name = "ALIEN_CARD" -> 4
    [] OTHER -> 2

\* the documentType ocrStep puts on the answer of a getter
TypeOfGetter(getter) ==
  CASE getter = "readIDCard" -> "ID_CARD"
    [] getter = "readDriverLicense" -> "DRIVER_LICENSE"
    [] OTHER -> "ALIEN_CARD"

\* the getter a round begins with
FirstGetter(name) ==
  IF name \in {"ID_CARD", "DRIVER_LICENSE", "ALIEN_CARD"} THEN OcrGetter(name)
  ELSE "readIDCard"

\* the license getter left out of the round
ProbeSkipsLicense(getter) ==
  CASE getter = "readIDCard" -> "readAlienCard"
    [] OTHER -> "sleep"

\* what follows a refused answer in a probing round: the next getter, or
\* sleep(300) after the third
ProbeAfter(getter) ==
  CASE getter = "readIDCard" -> "readDriverLicense"
    [] getter = "readDriverLicense" -> "readAlienCard"
    [] OTHER -> "sleep"

\* what follows a refused answer: a detected card type sleeps and polls the
\* same getter again
AfterRefusal(name, getter) ==
  IF name \in {"ID_CARD", "DRIVER_LICENSE", "ALIEN_CARD"} THEN "sleep"
  ELSE ProbeAfter(getter)

\* ocrStep(docType) is called: `docType?.name || 'UNKNOWN'`, and the first
\* getter awaited
CallOcrStep(docType) ==
  /\ poll.fn = "none"
  /\ LET name == IF docType = "null" THEN "UNKNOWN" ELSE docType
     IN  poll' = [fn |-> "ocrStep", pc |-> "await", name |-> name, round |-> 0,
                  getter |-> FirstGetter(name), calls |-> <<FirstGetter(name)>>,
                  answers |-> <<>>, value |-> NullData]
  /\ UNCHANGED <<arg, ret, reqId, pending, promises, worker, mainVars>>

\* the getter awaited answered v: the tagged answer is returned when
\* isLikelyValidOcr accepts it, else the next getter of the round is called
\* or the sleep begins
OcrAnswered(v) ==
  /\ poll.fn = "ocrStep" /\ poll.pc = "await"
  /\ LET r == Tagged(v, TypeOfGetter(poll.getter))
         then == AfterRefusal(poll.name, poll.getter)
     IN  poll' =
           IF isLikelyValidOcr(r)
           THEN [poll EXCEPT !.answers = Append(@, r), !.pc = "returned", !.value = r]
           ELSE IF then = "sleep"
           THEN [poll EXCEPT !.answers = Append(@, r), !.pc = "sleep"]
           ELSE [poll EXCEPT !.answers = Append(@, r), !.getter = then,
                             !.calls = Append(@, then)]
  /\ UNCHANGED <<arg, ret, reqId, pending, promises, worker, mainVars>>

\* the sleep is over: the next poll or round, or `return null`
OcrSleepDone ==
  /\ poll.fn = "ocrStep" /\ poll.pc = "sleep"
  /\ poll' = IF poll.round + 1 < OcrRounds(poll.name)
             THEN [poll EXCEPT !.round = @ + 1, !.pc = "await",
                               !.getter = FirstGetter(poll.name),
                               !.calls = Append(@, FirstGetter(poll.name))]
             ELSE [poll EXCEPT !.round = @ + 1, !.pc = "returned", !.value = NullData]
  /\ UNCHANGED <<arg, ret, reqId, pending, promises, worker, mainVars>>

NextPolling ==
  \/ CallDocTypeStepWithRetry
  \/ \E dt \in DocNames \cup {"null"} : DocTypeAnswered(dt)
  \/ DocTypeSleepDone
  \/ \E docType \in DocNames \cup {"null"} : CallOcrStep(docType)
  \/ \E v \in OcrValues : OcrAnswered(v)
  \/ OcrSleepDone

\* one call of a polling function, the main process otherwise at rest
SpecPolling == InitClient /\ [][NextPolling]_vars

(* ======================================================================= *)
(* The documentId of a recognized attempt                                  *)
(* ======================================================================= *)
\* The OCR fields reach the main process trimmed (decodeCP949 in
\* lib/scanner.js), the MRZ text trimmed (readMRZ); an absent field is the
\* empty text.

\* looksLikeDriverLicenseNo(licenseNo): /^\d{2}-\d{2}-\d{6}-\d{2}$/
looksLikeDriverLicenseNo(licenseNo) ==
  IF licenseNo = <<>> THEN FALSE
  ELSE
    LET s == trim(licenseNo)
    IN  /\ Len(s) = 15
        /\ AllDigits(SubSeq(s, 1, 2)) /\ s[3] = "-"
        /\ AllDigits(SubSeq(s, 4, 5)) /\ s[6] = "-"
        /\ AllDigits(SubSeq(s, 7, 12)) /\ s[13] = "-"
        /\ AllDigits(SubSeq(s, 14, 15))

\* looksLikeAlienRegNo(alienNo): /^\d{6}-[5-8]\d{6}$/, or 13 digits with
\* s[6] one of 5, 6, 7, 8
looksLikeAlienRegNo(alienNo) ==
  IF alienNo = <<>> THEN FALSE
  ELSE
    LET s == trim(alienNo)
    IN  \/ /\ Len(s) = 14
           /\ AllDigits(SubSeq(s, 1, 6))
           /\ s[7] = "-"
           /\ Between(s[8], "5", "8")
           /\ AllDigits(SubSeq(s, 9, 14))
        \/ /\ Len(s) = 13
           /\ AllDigits(s)
           /\ s[7] \in {"5", "6", "7", "8"}

\* what isLikelyValidOcr looks at in the result of a card getter
CardEvidence(documentData) ==
  [documentType |-> documentData.documentType,
   numberOk |-> CASE documentData.documentType = "ID_CARD" ->
                       looksLikeKoreanRRN(documentData.idNo)
                  [] documentData.documentType = "DRIVER_LICENSE" ->
                       looksLikeDriverLicenseNo(documentData.licenseNo)
                  [] documentData.documentType = "ALIEN_CARD" ->
                       looksLikeAlienRegNo(documentData.alienNo)
                  [] OTHER -> FALSE,
   nameLen |-> Len(trim(documentData.name))]

\* what isValidPassportMRZ and the recognized test look at in an MRZ text
MrzEvidence(mrz) ==
  LET cleaned == SelectSeq(mrz, LAMBDA c : ~IsSpace(c))
  IN  [p |-> cleaned # <<>> /\ cleaned[1] = "P",
       len |-> Len(cleaned),
       ws |-> Len(mrz) - Len(cleaned)]

\* the characters of a type name and of the literals of deriveDocumentId
TypeName(documentType) ==
  CASE documentType = "PASSPORT" -> <<"P", "A", "S", "S", "P", "O", "R", "T">>
    [] documentType = "ID_CARD" -> <<"I", "D", "_", "C", "A", "R", "D">>
    [] documentType = "DRIVER_LICENSE" ->
         <<"D", "R", "I", "V", "E", "R", "_", "L", "I", "C", "E", "N", "S", "E">>
    [] documentType = "ALIEN_CARD" ->
         <<"A", "L", "I", "E", "N", "_", "C", "A", "R", "D">>
    [] OTHER -> <<"U", "N", "K", "N", "O", "W", "N">>

\* [<>:"/\\|?*] of sanitizeFileComponent
ForbiddenInFileName == {"<", ">", ":", "\"", "/", "\\", "|", "?", "*"}

\* [\x00-\x1F\x7F<>:"/\\|?*] (0x7F is no character of the model)
NotForbidden(c) == ~IsControl(c) /\ c \notin ForbiddenInFileName

\* sanitizeFileComponent(s): String(s || '') without the forbidden
\* characters, trimmed
sanitizeFileComponent(s) == trim(SelectSeq(s, NotForbidden))

NotHyphen(c) == c # "-"

\* the prefix left out: the whole number taken
WholeNumber(digits) == digits

\* `.substring(0, 6)` of a resident or alien number without its hyphens
BirthPrefix(digits) == substring(digits, 0, 6)

\* `if (passportNo) return passportNo; return 'PASSPORT'`
NumberOrPassport(passportNo) ==
  IF passportNo.isNull THEN TypeName("PASSPORT") ELSE passportNo.text

\* deriveDocumentId(documentData, mrzText); documentData null is NullData
deriveDocumentId(documentData, mrzText) ==
  IF mrzText # <<>>
  THEN NumberOrPassport(extractPassportNo(mrzText))
  ELSE IF documentData.documentType = "null" THEN TypeName("UNKNOWN")
  ELSE IF /\ documentData.documentType = "ID_CARD"
          /\ looksLikeKoreanRRN(documentData.idNo)
       THEN BirthPrefix(SelectSeq(documentData.idNo, NotHyphen))
  ELSE IF /\ documentData.documentType = "DRIVER_LICENSE"
          /\ looksLikeDriverLicenseNo(documentData.licenseNo)
       THEN SelectSeq(documentData.licenseNo, NotHyphen)
  ELSE IF /\ documentData.documentType = "ALIEN_CARD"
          /\ looksLikeAlienRegNo(documentData.alienNo)
       THEN BirthPrefix(SelectSeq(documentData.alienNo, NotHyphen))
  ELSE TypeName(documentData.documentType)

\* `UNKNOWN_${Date.now()}`
UnknownAt(time) == TypeName("UNKNOWN") \o <<"_">> \o DecimalOf(time)

\* the documentId performScan saves under: the derived one sanitized, and
\* replaced when empty or shorter than 2
documentId(derived) ==
  LET id == sanitizeFileComponent(derived)
  IN  IF id = <<>> \/ Len(id) < 2 THEN UnknownAt(now) ELSE id

(* ---- the inputs: recognized attempts, and texts to sanitize ------------ *)
ResidentNos ==
  {<<>>, DigitRun(6) \o <<"-">> \o DigitRun(7), DigitRun(9) \o DigitRun(4),
   DigitRun(6) \o <<"-">> \o DigitRun(6)}

LicenseNos ==
  {<<>>,
   DigitRun(2) \o <<"-">> \o DigitRun(2) \o <<"-">> \o DigitRun(6) \o <<"-">> \o DigitRun(2),
   DigitRun(2) \o DigitRun(2) \o DigitRun(6) \o DigitRun(2),
   DigitRun(2) \o <<"-">> \o DigitRun(2) \o <<"-">> \o DigitRun(6)}

AlienNos ==
  {<<>>} \cup
  {DigitRun(6) \o sep \o <<d>> \o DigitRun(6) :
     sep \in {<<>>, <<"-">>}, d \in {"1", "4", "5", "8", "9"}}

CardNamesRead == {<<>>, <<"A">>, <<"A", "B">>}

\* what the card path of performScan can hold as documentData
CardResults ==
  [documentType : {"ID_CARD"}, idNo : ResidentNos, licenseNo : {<<>>},
   alienNo : {<<>>}, name : CardNamesRead]
    \cup [documentType : {"DRIVER_LICENSE"}, idNo : {<<>>, DigitRun(6) \o <<"-">> \o DigitRun(7)},
          licenseNo : LicenseNos, alienNo : {<<>>}, name : CardNamesRead]
    \cup [documentType : {"ALIEN_CARD"}, idNo : {<<>>}, licenseNo : {<<>>},
          alienNo : AlienNos, name : CardNamesRead]

\* the passport path: documentData is the parsed MRZ, of which the
\* documentId uses nothing
PassportResult ==
  [documentType |-> "PASSPORT", idNo |-> <<>>, licenseNo |-> <<>>, alienNo |-> <<>>,
   name |-> <<>>]

\* the specimen with a document number of one character
OneCharacterNumber ==
  SampleLine1 \o <<"M">> \o Fillers(8) \o SubSeq(SampleLine2, 10, LINE_WIDTH)

\* MRZ texts as readMRZ answers them (trimmed): the specimen with line 1 cut
\* short or whole, line 2 whole or run on, with and without a document number
ReadMrzTexts ==
  {Line1(n1) \o sep \o Line2(n2, numbered, check, "F") :
     n1 \in {30, LINE_WIDTH}, sep \in Separators, n2 \in {28, LINE_WIDTH, 50},
     numbered \in BOOLEAN, check \in {"3", "0"}}
    \cup {OneCharacterNumber}

\* the texts mrzStep returns: those isValidPassportMRZ accepted
PassportTexts == {m \in ReadMrzTexts : isValidPassportMRZ(MrzEvidence(m))}

\* attempts that reach the save step: `recognized` held
RecognizedAttempts ==
  [kind : {"attempt"}, mrzText : PassportTexts, documentData : {PassportResult}]
    \cup {a \in [kind : {"attempt"}, mrzText : {<<>>}, documentData : CardResults] :
            isLikelyValidOcr(CardEvidence(a.documentData))}

\* texts with characters a file name cannot hold
UnsafeTexts ==
  {<<>>, <<" ">>, <<"A", "*", "B">>, <<" ", "<", "1", ">", " ">>,
   <<"\t", "A", ":", "/", "?", "|", "B", "\n">>, <<"?">>, <<"I", "D", "_", "1">>}

DocumentIdInputs == RecognizedAttempts \cup [kind : {"text"}, text : UnsafeTexts]

CallDeriveDocumentId ==
  /\ arg.kind = "attempt"
  /\ Returns("deriveDocumentId", deriveDocumentId(arg.documentData, arg.mrzText))

CallSanitizeFileComponent ==
  /\ arg.kind = "text"
  /\ Returns("sanitizeFileComponent", sanitizeFileComponent(arg.text))

\* the save step of performScan as far as the documentId
DocumentIdStep ==
  /\ arg.kind = "attempt"
  /\ Returns("documentId", documentId(deriveDocumentId(arg.documentData, arg.mrzText)))

NextDocumentId ==
  \/ CallDeriveDocumentId
  \/ CallSanitizeFileComponent
  \/ DocumentIdStep

InitDocumentId ==
  /\ OrchestratorStart
  /\ scannerOpened = TRUE
  /\ arg \in DocumentIdInputs
  /\ ret = NoRet
  /\ reqId = 1
  /\ pending = {}
  /\ promises = <<>>
  /\ worker = "running"
  /\ poll = NoPoll

SpecDocumentId == InitDocumentId /\ [][NextDocumentId]_vars

TypeOK ==
  /\ now \in StartTime..MaxNow
  /\ scannerOpened \in BOOLEAN /\ scanLoopTimer \in BOOLEAN /\ isScanning \in BOOLEAN
  /\ pendingManualScan \in BOOLEAN /\ captured \in BOOLEAN
  /\ lastFailedAt \in 0..MaxNow /\ lastReconnectAt \in 0..MaxNow
  /\ consecutiveScanAutoTimeouts \in 0..MaxTimeouts
  /\ queuedTimers \in 0..MaxQueuedTimers
  /\ document \in {"none", "present"}
  /\ staged \in StagedSets

(* ======================================================================= *)
(* Properties                                                              *)
(* ======================================================================= *)

\* activation s of performScan is between setting and clearing isScanning
InFlight(s) == ps[s].pc # "idle"

\* the step starts an attempt: an activation passes the entry check
AttemptStarts == \E s \in Slots : ps[s].pc = "idle" /\ ps'[s].pc = "scan"

\* stages of an attempt that follow a successful scanAuto
LaterStages == {"images", "docType", "mrz", "ocr", "cooldown"}

\* device calls other than scanAuto that have a deadline
GetterCalls == {"getDocumentType", "readMRZ", "readIDCard", "readDriverLicense",
                "readAlienCard"}

IsAdvisory(e) == e.ch = "scanner-status" /\ e.error = "timeouts"

\* the request a reconnect sequence has posted and awaits at each of its
\* await points (scanner.destroy() begins with close())
RcCall(pc) ==
  CASE pc = "close" -> "close"
    [] pc = "destroy" -> "close"
    [] pc = "init" -> "init"
    [] OTHER -> "open"

\* requests posted to an execution context by ScannerClient._call and not
\* answered: the scanAuto of an attempt in its scan step, the request each
\* reconnect sequence awaits, and the scanAuto the last step abandoned at its
\* deadline (no answer can have been handled within that step)
OutstandingCalls ==
  {[by |-> <<"scan", s>>, cmd |-> "scanAuto"] : s \in {t \in Slots : ps[t].pc = "scan"}}
    \cup {[by |-> r, cmd |-> RcCall(rc[r].pc)] :
            r \in {q \in RcIds : rc[q].pc \in {"close", "destroy", "init", "open"}}}
    \cup (IF obs.timedOut = "scanAuto"
          THEN {[by |-> <<"abandoned", 0>>, cmd |-> "scanAuto"]} ELSE {})

(* ---- C1 --------------------------------------------------------------- *)
\* C1: at most one scan attempt is in flight at any time: the body of
\* performScan is never active in two invocations at once, and it is active
\* exactly while the busy flag is set.
C1_AtMostOneAttempt ==
  /\ \A s, u \in Slots : InFlight(s) /\ InFlight(u) => s = u
  /\ isScanning <=> \E s \in Slots : InFlight(s)

\* an attempt is in flight while the loop timer runs, a queued-manual timer
\* is armed and a reconnect sequence executes
C1_Witness ==
  /\ \E s \in Slots : InFlight(s)
  /\ scanLoopTimer /\ queuedTimers > 0
  /\ \E r \in RcIds : rc[r].pc # "idle"

(* ---- C2 --------------------------------------------------------------- *)
\* C2: for each physical presentation of a document (placed, resting for any
\* length of time, removed) exactly one result is persisted and one
\* scan-result event emitted: a result is never persisted for a document for
\* which one has been persisted already.
C2_OneResultPerPresentation ==
  [][\A s \in Slots :
       ps[s].pc # "cooldown" /\ ps'[s].pc = "cooldown" /\ ps[s].presented
         => ~captured]_vars

(* ---- C3 --------------------------------------------------------------- *)
\* C3: manual-scan requests received while an attempt is in flight produce
\* exactly one additional queued attempt, started after the busy flag is
\* cleared: every firing of the queued-manual timer starts an attempt.
C3_QueuedAttemptStarts ==
  [][queuedTimers' < queuedTimers => ~isScanning /\ AttemptStarts]_vars

(* ---- C4 --------------------------------------------------------------- *)
\* C4, as stated: no attempt starts, by the periodic timer or by a manual
\* request, while less than FAIL_BACKOFF_MS has elapsed since lastFailedAt.
C4_NoStartInsideBackoff ==
  [][AttemptStarts => now - lastFailedAt >= FAIL_BACKOFF_MS]_vars

\* C4, as the code has it: the periodic callback starts no attempt inside the backoff
\* window; an attempt starts there only through a manual-scan request,
\* which clears lastFailedAt, or through the queued-manual timer, which does
\* not consult it.
C4_BackoffUnlessManual ==
  [][AttemptStarts =>
       \/ now - lastFailedAt >= FAIL_BACKOFF_MS
       \/ lastFailedAt' = 0
       \/ queuedTimers' < queuedTimers]_vars

\* an attempt is in flight that was started after the window of an earlier
\* recorded failure had elapsed
C4_Witness ==
  /\ \E s \in Slots : ps[s].pc = "scan"
  /\ lastFailedAt > 0
  /\ now - lastFailedAt >= FAIL_BACKOFF_MS

(* ---- C5 --------------------------------------------------------------- *)
\* C5: the third consecutive scanAuto timeout with no successful scanAuto in
\* between stops the automatic loop and emits exactly one advisory
\* scanner-status event (the repeated-timeout text).
C5_ThirdTimeoutStopsLoop ==
  [][timeoutsSinceSuccess = 2 /\ timeoutsSinceSuccess' = 3
       => /\ ~scanLoopTimer'
          /\ Len(SelectSeq(obs'.sent, IsAdvisory)) = 1]_vars

\* the third timeout in a row has just happened
C5_Witness ==
  /\ timeoutsSinceSuccess = 3
  /\ obs.timedOut = "scanAuto"
  /\ ~scanLoopTimer
  /\ obs.sent # <<>>

(* ---- C6 --------------------------------------------------------------- *)
\* C6: a scanAuto timeout that raises the counter to 1 or 2 invokes
\* forceReconnectScanner inside the attempt, and the busy flag stays set
\* while the sequence it began executes; a timeout that raises the counter
\* to 3 or more invokes no reconnect.
C6_ReconnectBelowThreshold ==
  [][/\ obs'.timedOut = "scanAuto" /\ consecutiveScanAutoTimeouts' \in {1, 2}
          => /\ obs'.reconnect \in {"started", "suppressed"}
             /\ obs'.reconnect = "started"
                  => \E s \in Slots : /\ rc[<<"scan", s>>].pc = "idle"
                                      /\ rc'[<<"scan", s>>].pc # "idle"
                                      /\ ps'[s].pc = "reconnect"
     /\ obs'.timedOut = "scanAuto" /\ consecutiveScanAutoTimeouts' >= 3
          => obs'.reconnect = "none" /\ UNCHANGED <<rc, lastReconnectAt>>
     /\ \A s \in Slots : rc'[<<"scan", s>>].pc # "idle"
          => isScanning' /\ ps'[s].pc = "reconnect"]_vars

\* the second timeout in a row began a reconnect sequence inside its attempt
C6_Witness ==
  /\ consecutiveScanAutoTimeouts = 2
  /\ isScanning
  /\ \E s \in Slots : ps[s].pc = "reconnect" /\ rc[<<"scan", s>>].pc = "open"

(* ---- C7 --------------------------------------------------------------- *)
\* C7, as stated: each device call of an attempt that exceeds its deadline
\* (scanAuto, getDocumentType, readMRZ, an OCR getter) raises the
\* consecutive-timeout counter by exactly one.
C7_EveryTimeoutCounts ==
  [][obs'.timedOut # "none"
       => consecutiveScanAutoTimeouts' = consecutiveScanAutoTimeouts + 1]_vars

\* C7, as the code has it: a scanAuto timeout raises the counter by exactly one; a
\* timeout of getDocumentType, readMRZ or an OCR getter is absorbed by its
\* step as an empty result and leaves the counter as it is.
C7_OnlyScanAutoCounts ==
  [][/\ obs'.timedOut = "scanAuto"
          => consecutiveScanAutoTimeouts' = consecutiveScanAutoTimeouts + 1
     /\ obs'.timedOut \in GetterCalls
          => consecutiveScanAutoTimeouts' = consecutiveScanAutoTimeouts]_vars

\* a second scanAuto timeout in a row has been counted
C7_Witness ==
  /\ obs.timedOut = "scanAuto"
  /\ consecutiveScanAutoTimeouts = 2
  /\ timeoutsSinceSuccess = 2

(* ---- C8 --------------------------------------------------------------- *)
\* C8: once scanAuto has reported success the consecutive-timeout counter is
\* zero, and it stays zero through every later stage of that attempt and
\* through the step that ends it, whatever the outcome.
C8_SuccessResetsCounter ==
  [][\A s \in Slots :
       ps[s].pc \in LaterStages \/ ps'[s].pc \in LaterStages
         => consecutiveScanAutoTimeouts' = 0]_vars

\* scanAuto succeeded in an attempt that followed a timeout-triggered
\* reconnect, and the attempt then failed in a later stage
C8_Witness ==
  /\ consecutiveScanAutoTimeouts = 0
  /\ lastReconnectAt > 0
  /\ lastFailedAt = now
  /\ obs.timedOut = "getDocumentType"
  /\ ~isScanning

(* ---- C9 --------------------------------------------------------------- *)
\* C9: a reconnect request (operator- or timeout-triggered) made less than
\* 3 s after the request that last executed the recovery sequence is
\* suppressed: it returns false, begins no sequence, and leaves the loop
\* timer, the device-open flag, the scanner client and lastReconnectAt as
\* they are; a request made later executes the sequence.
C9_SecondRequestSuppressed ==
  [][obs'.reconnect # "none"
       => IF now - lastReconnectAt < 3000
          THEN /\ obs'.reconnect = "suppressed"
               /\ obs'.ret = "reconnect:false"
               /\ UNCHANGED <<rc, scanLoopTimer, scannerOpened, scanner,
                              lastReconnectAt>>
          ELSE /\ obs'.reconnect = "started"
               /\ lastReconnectAt' = now]_vars

\* an operator request was suppressed some time after the request that
\* executes the sequence, which is still under way
C9_Witness ==
  /\ obs.reconnect = "suppressed"
  /\ obs.timedOut = "none"
  /\ lastReconnectAt > 0
  /\ now > lastReconnectAt
  /\ \E r \in RcIds : rc[r].pc # "idle"

(* ---- C10 -------------------------------------------------------------- *)
\* C10, as stated: if the loop was running when a non-suppressed reconnect
\* sequence began, the loop is running when the sequence has finished.
C10_LoopResumes ==
  [][\A r \in RcIds :
       rc[r].pc # "idle" /\ rc'[r].pc = "idle" /\ rc[r].wasRunning
         => scanLoopTimer']_vars

\* C10, as the code has it: if the loop was running when a non-suppressed reconnect
\* sequence began, the loop is running when the sequence has finished with
\* the device reopened (it returns true); a sequence whose re-initialisation
\* or reopening fails returns false and leaves the loop timer as it finds it.
C10_LoopResumesIfReopened ==
  [][\A r \in RcIds :
       rc[r].pc # "idle" /\ rc'[r].pc = "idle" /\ rc[r].wasRunning
         => /\ obs'.ret = "reconnect:true" => scanLoopTimer' /\ scannerOpened'
            /\ obs'.ret = "reconnect:false"
                 => scanLoopTimer' = scanLoopTimer /\ ~scannerOpened']_vars

\* a sequence begun with the loop running has reopened the device and
\* restarted the loop
C10_Witness ==
  /\ obs.ret = "reconnect:true"
  /\ scanLoopTimer
  /\ lastReconnectAt = now
  /\ \A r \in RcIds : rc[r].pc = "idle"

(* ---- C11 -------------------------------------------------------------- *)
\* a scanner-status event that reports the device as not connected
IsDisconnected(e) == e.ch = "scanner-status" /\ ~e.connected

\* C11: a reconnect sequence whose reinitialize or reopen step fails or times
\* out ends with the device marked closed, has emitted a scanner-status event
\* with connected = false in its last step, and returns false to its caller
\* (which continues: the handler answers, performScan runs its finally
\* block); a sequence never ends in another way than by returning.
C11_FailedReconnectClosed ==
  [][\A r \in RcIds :
       rc[r].pc # "idle" /\ rc'[r].pc = "idle"
         => /\ rc[r].pc \in {"init", "open"}
            /\ obs'.ret \in {"reconnect:true", "reconnect:false"}
            /\ rc[r].pc = "init" => obs'.ret = "reconnect:false"
            /\ obs'.ret = "reconnect:true" <=> scannerOpened'
            /\ obs'.ret = "reconnect:false"
                 => /\ ~scannerOpened'
                    /\ Len(SelectSeq(obs'.sent, IsDisconnected)) = 1
                    /\ r[1] = "scan" => ~isScanning' /\ ps'[r[2]].pc = "idle"]_vars

\* a sequence begun by a scanAuto timeout has just failed to reopen the
\* device: the attempt is over and the device is marked closed
C11_Witness ==
  /\ obs.ret = "reconnect:false"
  /\ obs.reconnect = "none"
  /\ obs.sent = <<StatusEvent(FALSE, "none")>>
  /\ ~scannerOpened
  /\ ~isScanning
  /\ consecutiveScanAutoTimeouts > 0
  /\ lastReconnectAt > 0

(* ---- C12 -------------------------------------------------------------- *)
\* C12: during a non-suppressed reconnect the previous execution context
\* (worker) is terminated before the new one takes over, also when it is
\* wedged in a native call that never returns: whenever the sequence
\* replaces the scanner client, worker.terminate() of the previous one has
\* run.
C12_OldWorkerTerminated ==
  [][scanner' # scanner => obs'.terminated]_vars

(* ---- C13 -------------------------------------------------------------- *)
\* where the model stops short: the scanAuto timeout of an attempt begun
\* with the counter at its bound is not modelled, nor the end of a cool-down
\* that outlasts the clock
BeyondBounds(s) ==
  \/ ps[s].pc = "scan" /\ consecutiveScanAutoTimeouts = MaxTimeouts
  \/ ps[s].pc = "cooldown" /\ now = MaxNow /\ now - ps[s].since < COOLDOWN_MS

\* C13: every attempt terminates: once started, performScan eventually
\* clears the busy flag even if the device boundary never answers any call,
\* because every await in the attempt (device calls, image waits, reconnect
\* steps) is bounded by a deadline.
C13_AttemptTerminates ==
  \A s \in Slots :
    InFlight(s) ~> (~InFlight(s) /\ ~isScanning) \/ BeyondBounds(s)

\* an attempt is over whose scanAuto was abandoned at the deadline and whose
\* reconnect sequence ended with the new worker not initialised in time
C13_Witness ==
  /\ ~isScanning
  /\ \A s \in Slots : ~InFlight(s)
  /\ consecutiveScanAutoTimeouts = 1
  /\ obs.ret = "reconnect:false"
  /\ obs.sent = <<StatusEvent(FALSE, "dll")>>

(* ---- C14 -------------------------------------------------------------- *)
\* C14: device-boundary calls are strictly sequential: at no time are two
\* device requests outstanding (sent to the execution context and not yet
\* answered) at once, a call abandoned by its caller-side deadline counting
\* as outstanding.
C14_OneOutstanding == Cardinality(OutstandingCalls) <= 1

(* ---- C15 -------------------------------------------------------------- *)
\* the getters of ocrStep
OcrGetters == {"readIDCard", "readDriverLicense", "readAlienCard"}

\* activation s leaves the type-detection stage of a card scan
CardTypeDetected(s) ==
  ps[s].pc = "docType" /\ ps[s].type = "card" /\ ps'[s].pc # "docType"

C16_ResetRequestIssued ==
  [][\A s \in Slots :
       CardTypeDetected(s) /\ ps'[s].pc = "idle" => "resetState" \in obs'.posted]_vars

(* ---- C17 -------------------------------------------------------------- *)
\* C17: an attempt whose scanAuto returns no document (success = false)
\* ends silently: the backoff timestamp is unchanged, no event is emitted,
\* no file is created or deleted, no further device call is made (nothing is
\* posted, no reconnect is begun, the activation awaits nothing), and the
\* busy flag is cleared.
C17_NoDocumentEndsSilently ==
  [][obs'.ret = "scan:noDocument"
       => /\ \E s \in Slots :
               /\ ps[s].pc = "scan"
               /\ ps' = [ps EXCEPT ![s] = IdleFrame]
          /\ lastFailedAt' = lastFailedAt
          /\ obs'.sent = <<>>
          /\ staged' = staged /\ obs'.wrote = {} /\ obs'.unlinked = {}
          /\ obs'.posted = {} /\ obs'.reconnect = "none"
          /\ UNCHANGED <<rc, scanner, scannerOpened, scanLoopTimer>>
          /\ ~isScanning']_vars

\* scanAuto has just reported no document inside the backoff window of an
\* earlier failure, whose timestamp is still there
C17_Witness ==
  /\ obs.ret = "scan:noDocument"
  /\ ~isScanning
  /\ lastFailedAt > 0
  /\ now - lastFailedAt < FAIL_BACKOFF_MS

(* ---- C18 -------------------------------------------------------------- *)
\* the image wait of activation s ends without the primary staged image
PrimaryImageMissing(s) ==
  ps[s].pc = "images" /\ ps'[s].pc # "images" /\ "bmp" \notin staged'

\* what C18 says of that step besides the backoff timestamp: no
\* type-detection, MRZ or OCR call, nothing persisted or notified, no
\* reconnect sequence, the loop not stopped
EndsWithoutEscalation(s) ==
  /\ ps' = [ps EXCEPT ![s] = IdleFrame]
  /\ ~isScanning'
  /\ obs'.posted = {} /\ obs'.timedOut = "none"
  /\ obs'.sent = <<>> /\ obs'.wrote = {}
  /\ obs'.reconnect = "none"
  /\ UNCHANGED <<rc, lastReconnectAt, scanner, scannerOpened, scanLoopTimer,
                 consecutiveScanAutoTimeouts>>

\* C18, as stated: if the primary staged image does not exist when the
\* bounded wait ends, the attempt fails with the backoff timestamp set,
\* makes no type-detection, MRZ or OCR call, persists and notifies nothing,
\* and neither invokes the reconnect sequence nor stops the loop.
C18_MissingImageSetsBackoff ==
  [][\A s \in Slots :
       PrimaryImageMissing(s) => lastFailedAt' = now /\ EndsWithoutEscalation(s)]_vars

\* C18, as the code has it: the attempt sets the backoff timestamp to the
\* time of the failure, but when a manual-scan request was queued during the
\* attempt its finally block clears the timestamp again (and arms the queued
\* attempt); the rest as stated.
C18_MissingImageBackoffUnlessQueued ==
  [][\A s \in Slots :
       PrimaryImageMissing(s)
         => /\ lastFailedAt' = IF pendingManualScan THEN 0 ELSE now
            /\ queuedTimers' = IF pendingManualScan THEN queuedTimers + 1 ELSE queuedTimers
            /\ EndsWithoutEscalation(s)]_vars

\* an attempt has just failed for its missing primary image while the loop
\* runs: the timestamp is set, the loop timer still armed
C18_Witness ==
  /\ obs.ret = "images:missing"
  /\ lastFailedAt = now
  /\ scanLoopTimer
  /\ ~isScanning
  /\ staged = {}

(* ---- C19 -------------------------------------------------------------- *)
\* a scan-result event
IsResult(e) == e.ch = "scan-result"

\* the extraction stage of activation s is over
ExtractionEnds(s) == ps[s].pc \in {"mrz", "ocr"} /\ ps'[s].pc # ps[s].pc

\* the step persists and notifies: transcript and JSON are written, one
\* scan-result event is sent, the cool-down begins
PersistsAndNotifies(s) ==
  /\ ps'[s].pc = "cooldown"
  /\ {"txt", "json"} \subseteq obs'.wrote
  /\ Len(SelectSeq(obs'.sent, IsResult)) = 1

\* C19: an attempt that reaches the extraction stage is treated as
\* recognized (persisted and notified) if and only if the MRZ path returned
\* text of length > 10 that is structurally valid, or the FieldValidator
\* (isLikelyValidOcr) accepts the OCR result; an attempt not recognized
\* writes and sends nothing.
C19_RecognizedIffValid ==
  [][\A s \in Slots :
       ExtractionEnds(s)
         => /\ PersistsAndNotifies(s)
                 <=> \/ /\ ps[s].pc = "mrz"
                        /\ Length(obs'.mrzText) > 10
                        /\ isValidPassportMRZ(obs'.mrzText)
                     \/ /\ ps[s].pc = "ocr"
                        /\ isLikelyValidOcr(obs'.documentData)
            /\ ~PersistsAndNotifies(s)
                 => ps'[s].pc = "idle" /\ obs'.wrote = {} /\ obs'.sent = <<>>]_vars

\* a driver licence has just been recognized by its name alone, the number
\* not having the form of a licence number
C19_Witness ==
  /\ obs.documentData.documentType = "DRIVER_LICENSE"
  /\ ~obs.documentData.numberOk
  /\ obs.documentData.nameLen = 2
  /\ obs.wrote = {"bmp", "ir", "txt", "json"}
  /\ \E s \in Slots : ps[s].pc = "cooldown"

(* ---- C20 -------------------------------------------------------------- *)
\* the extraction stage of activation s is over and the attempt is not
\* recognized: mrzStep returned no text, or the validator rejects what
\* ocrStep returned
EndsUnrecognized(s) ==
  /\ ExtractionEnds(s)
  /\ ps[s].pc = "mrz" => ~Truthy(obs'.mrzText)
  /\ ps[s].pc = "ocr" => ~isLikelyValidOcr(obs'.documentData)

\* what C20 says of that step besides the backoff timestamp
CleansUp(s) ==
  /\ ps' = [ps EXCEPT ![s] = IdleFrame]
  /\ ~isScanning'
  /\ obs'.wrote = {}
  /\ obs'.sent = <<>>
  /\ obs'.unlinked = ps[s].images
  /\ staged' = {}

\* the periodic callback starts an attempt (no manual request is involved:
\* no queued timer fires, lastFailedAt is not touched)
LoopStartsAttempt ==
  AttemptStarts /\ queuedTimers' = queuedTimers /\ lastFailedAt' = lastFailedAt

ContextTornDown ==
  worker' # worker /\ worker' \in {"errored", "exited:1"}

\* C21: when the execution context crashes or is force-terminated, every
\* request outstanding in the pending-request table is rejected and the
\* table is emptied.
C21_TeardownRejectsPending ==
  [][ContextTornDown =>
       /\ pending' = {}
       /\ \A id \in pending : promises'[id] = "rejected"]_vars

\* the worker was terminated with two requests outstanding, after it had
\* answered another: the two are rejected and the table is empty
C21_Witness ==
  /\ worker = "exited:1"
  /\ pending = {}
  /\ Len(promises) = 3
  /\ promises[1] = "resolved"
  /\ promises[2] = "rejected"
  /\ promises[3] = "rejected"

(* ---- C22 -------------------------------------------------------------- *)
\* a manual-scan or start-scan-loop request is handled while the device is
\* not connected
RequestWhileNotConnected == ~scannerOpened /\ (ManualScan \/ StartScanLoopIpc)

\* C22: a manual-scan or start-loop request received while the device is not
\* connected returns an error immediately and changes no state: no attempt
\* starts, the pending flag is not set, the backoff timestamp is unchanged
\* and the loop is not started.
C22_NotConnectedRequestRefused ==
  [][RequestWhileNotConnected =>
       /\ obs'.ret = "error:notConnected"
       /\ ~AttemptStarts
       /\ UNCHANGED <<now, scanner, scannerOpened, scanLoopTimer, isScanning,
                      lastFailedAt, pendingManualScan, lastReconnectAt,
                      consecutiveScanAutoTimeouts, ps, rc, queuedTimers, staged>>]_vars

\* a request has just been refused with the loop stopped, the device closed
\* and a backoff timestamp standing: the loop stays stopped and the
\* timestamp stays
C22_Witness ==
  /\ obs.ret = "error:notConnected"
  /\ ~scannerOpened
  /\ ~scanLoopTimer
  /\ lastFailedAt > 0
  /\ ~isScanning

(* ---- C23 -------------------------------------------------------------- *)
\* C23: whenever normalizeMrz returns a record, line1 and line2 each have
\* exactly 44 characters, for every input and every branch.
C23_LinesAre44 ==
  (ret.fn = "normalizeMrz" /\ ~ret.value.isNull) =>
    /\ Len(ret.value.line1) = LINE_WIDTH
    /\ Len(ret.value.line2) = LINE_WIDTH

(* ---- C24 -------------------------------------------------------------- *)
\* the newline-delimited non-empty segments of a raw text: the other control
\* characters stripped, white space at the ends trimmed, spaces mapped to
\* the filler, characters outside the MRZ alphabet dropped
NotOtherControl(c) == c = "\n" \/ ~IsControl(c)

Segments(raw) ==
  LET text == SelectSeq(SpacesToFillers(trim(SelectSeq(raw, NotOtherControl))), MrzAllowed)
  IN  SelectSeq(split(text, "\n"), NotEmpty)

\* right-padded with the filler to 44 and truncated to 44
Fit(segment) == substring(padEnd(segment, LINE_WIDTH, "<"), 0, LINE_WIDTH)

\* C24: if the raw MRZ contains at least two newline-delimited non-empty
\* segments, normalizeMrz returns the first two segments as line1 and line2,
\* each right-padded with the filler to 44 and truncated to 44.
C24_TwoSegmentsKept ==
  (ret.fn = "normalizeMrz" /\ Len(Segments(arg)) >= 2) =>
    ret.value = MrzRecord(Fit(Segments(arg)[1]), Fit(Segments(arg)[2]))

(* ---- C25 -------------------------------------------------------------- *)
\* what the check-digit column of line 2 can hold
CheckColumnChars == Range(Digits) \cup {"<", "X"}

\* a raw text whose normalized record is that of `record` with c in the
\* check-digit column line2[9]
WithCheckDigit(record, c) ==
  record.line1 \o [i \in DOMAIN record.line2 |-> IF i = 10 THEN c ELSE record.line2[i]]

\* two normalized records that differ at most in line2[9]
DifferOnlyInCheckDigit(a, b) ==
  /\ ~a.isNull /\ ~b.isNull
  /\ a.line1 = b.line1
  /\ Len(a.line2) = Len(b.line2)
  /\ \A i \in DOMAIN a.line2 : i # 10 => a.line2[i] = b.line2[i]

\* C25: extractPassportNo never rejects on a checksum mismatch: for any two
\* inputs whose normalized records differ only in line2[9], it returns the
\* same passport number, namely line2[0,9) with fillers removed (null when
\* nothing remains of the field).
C25_ChecksumNeverRejects ==
  (ret.fn = "extractPassportNo" /\ ~normalizeMrz(arg).isNull) =>
    LET normalized == normalizeMrz(arg)
        number == SelectSeq(substring(normalized.line2, 0, 9), NotFiller)
    IN  /\ ret.value.text = number
        /\ ret.value.isNull = (number = <<>>)
        /\ \A c \in CheckColumnChars :
             LET other == WithCheckDigit(normalized, c)
             IN  DifferOnlyInCheckDigit(normalized, normalizeMrz(other)) =>
                   /\ extractPassportNo(other).text = ret.value.text
                   /\ extractPassportNo(other).isNull = ret.value.isNull

\* the specimen's number was returned although the check digit given does
\* not match the one calculated, and the same text with the matching digit
\* normalizes to a record that differs in that column only
C25_Witness ==
  /\ ret.fn = "extractPassportNo"
  /\ ret.value.logged
  /\ ~ret.value.isNull
  /\ ret.value.text = SubSeq(SampleLine2, 1, 8)
  /\ LET normalized == normalizeMrz(arg)
         other == WithCheckDigit(normalized, "3")
     IN  /\ normalized.line2[10] = "0"
         /\ DifferOnlyInCheckDigit(normalized, normalizeMrz(other))
         /\ ~extractPassportNo(other).logged

(* ---- C26 -------------------------------------------------------------- *)
\* the value of a character as ICAO 9303 gives it: digits 0..9, letters
\* A..Z 10..35, the filler 0
IcaoValue(c) ==
  IF c \in Range(Digits) THEN IndexOf(Digits, c) - 1
  ELSE IF c \in Range(Uppers) THEN IndexOf(Uppers, c) + 9
  ELSE 0

\* weight of position i (from 0): 7, 3, 1 cycling
IcaoWeight(i) == CASE i % 3 = 0 -> 7 [] i % 3 = 1 -> 3 [] OTHER -> 1

RECURSIVE IcaoSum(_, _)
IcaoSum(field, i) ==
  IF i >= Len(field) THEN 0
  ELSE IcaoValue(field[i + 1]) * IcaoWeight(i) + IcaoSum(field, i + 1)

\* every character is of the MRZ alphabet
OverMrzAlphabet(field) ==
  \A i \in DOMAIN field : field[i] \in Range(Digits) \cup Range(Uppers) \cup {"<"}

\* C26: mrzChecksum(field) equals (sum over i of value(field[i]) *
\* weight[i mod 3]) mod 10 with weights [7,3,1], digits valued 0..9, letters
\* A..Z valued 10..35 and the filler valued 0, for every field over the MRZ
\* alphabet; for the field L898902C3 it yields 6.
C26_ChecksumIsIcao ==
  (ret.fn = "mrzChecksum" /\ OverMrzAlphabet(arg)) =>
    /\ ret.value = IcaoSum(arg, 0) % 10
    /\ arg = ReferenceField => ret.value = 6

\* the checksum of the reference field has been computed
C26_Witness ==
  /\ ret.fn = "mrzChecksum"
  /\ arg = ReferenceField
  /\ ret.value = 6

(* ---- C27 -------------------------------------------------------------- *)
\* a normalized TD3 record: two lines of 44 characters
IsTd3(record) ==
  ~record.isNull /\ Len(record.line1) = LINE_WIDTH /\ Len(record.line2) = LINE_WIDTH

DigitOf(c) == IndexOf(Digits, c) - 1

TwoDigits(str) == 10 * DigitOf(str[1]) + DigitOf(str[2])

FourDigits(str) ==
  1000 * DigitOf(str[1]) + 100 * DigitOf(str[2]) + 10 * DigitOf(str[3]) + DigitOf(str[4])

\* a YYMMDD string that begins with a two-digit year
HasTwoDigitYear(dateStr) ==
  Len(dateStr) = 6 /\ dateStr[1] \in Range(Digits) /\ dateStr[2] \in Range(Digits)

\* the date formatMrzDate returned for year yy
FormattedYearIs(yy, yyyy) ==
  (ret.fn = "formatMrzDate" /\ HasTwoDigitYear(arg) /\ TwoDigits(arg) = yy) =>
    FourDigits(ret.value) = yyyy

\* C28: formatMrzDate maps a two-digit year yy to 1900+yy when yy > 50 and
\* to 2000+yy otherwise, for every yy in 00..99 (50 gives 2050, 51 gives
\* 1951, 05 gives 2005).
C28_CenturyPivot ==
  /\ (ret.fn = "formatMrzDate" /\ HasTwoDigitYear(arg)) =>
       /\ Len(ret.value) = 10
       /\ \A i \in 1..4 : ret.value[i] \in Range(Digits)
       /\ FourDigits(ret.value) =
            (IF TwoDigits(arg) > 50 THEN 1900 ELSE 2000) + TwoDigits(arg)
       /\ ret.value[5] = "-"
       /\ SubSeq(ret.value, 6, 7) = SubSeq(arg, 3, 4)
  /\ FormattedYearIs(50, 2050)
  /\ FormattedYearIs(51, 1951)
  /\ FormattedYearIs(5, 2005)

\* the year at the pivot has been formatted
C28_Witness ==
  /\ ret.fn = "formatMrzDate"
  /\ arg = <<"5", "0", "0", "8", "0", "6">>
  /\ ret.value = <<"2", "0", "5", "0", "-", "0", "8", "-", "0", "6">>

(* ---- C29 -------------------------------------------------------------- *)
\* 13 digits, optionally with one hyphen after the 6th digit
ThirteenDigits(text) ==
  LET bare == IF Len(text) = 14 /\ text[7] = "-"
              THEN SubSeq(text, 1, 6) \o SubSeq(text, 8, 14) ELSE text
  IN  Len(bare) = 13 /\ \A i \in 1..13 : bare[i] \in Range(Digits)

\* C29: the ID_CARD validator accepts a result if and only if its
\* national-id field (trimmed) is 13 digits, optionally with one hyphen after
\* the 6th digit, or its trimmed name has length >= 2; the id pattern itself
\* accepts 123456-1234567 and rejects a 7-digit value.
C29_IdCardAccepted ==
  /\ ret.fn = "isLikelyValidOcr" =>
       (ret.value <=> (ThirteenDigits(trim(arg.idNo)) \/ Len(trim(arg.name)) >= 2))
  /\ ret.fn = "looksLikeKoreanRRN" =>
       /\ arg.idNo = DigitRun(6) \o <<"-">> \o DigitRun(7) => ret.value
       /\ arg.idNo = DigitRun(7) => ~ret.value

\* a result with a one-letter name has been accepted for its national-id
\* field 123456-1234567 alone
C29_Witness ==
  /\ ret.fn = "isLikelyValidOcr"
  /\ ret.value
  /\ arg.idNo = DigitRun(6) \o <<"-">> \o DigitRun(7)
  /\ arg.name = <<"A">>

(* ---- C30 -------------------------------------------------------------- *)
\* the input holds a 4-digit year of the form 19xx or 20xx
HasYear(text) == \E i \in DOMAIN text : YearAt(text, i)

\* the first such year is followed by a month and a day, set off by
\* separators
FirstYearBeginsDate(text) ==
  /\ HasYear(text)
  /\ LET i == CHOOSE j \in DOMAIN text : YearAt(text, j) /\ \A k \in 1..(j - 1) : ~YearAt(text, k)
     IN  DateAt(text, i)

\* YYYYMMDD of the date the first year begins
FirstDate(text) ==
  LET i == CHOOSE j \in DOMAIN text : YearAt(text, j) /\ \A k \in 1..(j - 1) : ~YearAt(text, k)
      m == DateGroups(text, i)
      month == SubSeq(text, m.month, m.monthEnd - 1)
      day == SubSeq(text, m.day, m.dayEnd - 1)
  IN  SubSeq(text, i, i + 3)
        \o (IF Len(month) = 1 THEN <<"0">> \o month ELSE month)
        \o (IF Len(day) = 1 THEN <<"0">> \o day ELSE day)

\* C30: normalizeYyyyMmDd returns YYYYMMDD built from the first 4-digit year
\* of the form 19xx or 20xx in the input together with the month and day
\* that follow it (each zero-padded to two digits), and returns the empty
\* string when the input contains no such date-like substring.
C30_FirstDateNormalized ==
  ret.fn = "normalizeYyyyMmDd" =>
    /\ ~HasYear(arg.text) => ret.value = <<>>
    /\ FirstYearBeginsDate(arg.text) => ret.value = FirstDate(arg.text)

(* ---- C35 -------------------------------------------------------------- *)
\* C35: an attempt that ends with no document leaves the consecutive-timeout
\* counter unchanged, so scan timeouts separated only by no-document
\* attempts still accumulate to the threshold: the counter is the number of
\* scanAuto timeouts since the last successful scanAuto; it falls only in
\* the step in which scanAuto reports success, and never in a step of a
\* reconnect sequence.
C35_NoDocumentKeepsCounter ==
  [][/\ obs'.ret = "scan:noDocument"
          => consecutiveScanAutoTimeouts' = consecutiveScanAutoTimeouts
     /\ consecutiveScanAutoTimeouts' = timeoutsSinceSuccess'
     /\ consecutiveScanAutoTimeouts' < consecutiveScanAutoTimeouts
          => /\ consecutiveScanAutoTimeouts' = 0
             /\ \E s \in Slots : ps[s].pc = "scan" /\ ps'[s].pc = "images"
     /\ (\E r \in RcIds : rc[r].pc # "idle" /\ rc'[r] # rc[r])
          => consecutiveScanAutoTimeouts' = consecutiveScanAutoTimeouts]_vars

\* an attempt has just ended with no document after two timeouts, one of
\* which began a reconnect: the counter still stands at two
C35_Witness ==
  /\ obs.ret = "scan:noDocument"
  /\ consecutiveScanAutoTimeouts = 2
  /\ lastReconnectAt > 0
  /\ ~isScanning

(* ---- C36 -------------------------------------------------------------- *)
\* stages in which an attempt has a device call outstanding or issues them
DeviceStages == {"scan", "docType", "mrz", "ocr"}

\* C36: while a reconnect sequence is executing (from stopping the loop
\* until the reopen has returned) no scan attempt is started or in flight
\* issuing device calls.
C36_NoAttemptDuringReconnect ==
  \A r \in RcIds :
    rc[r].pc # "idle" => \A s \in Slots : ps[s].pc \notin DeviceStages

(* ---- C37 -------------------------------------------------------------- *)
\* C37: at most one reconnect sequence is executing at any time.
C37_OneReconnectAtATime ==
  \A r, q \in RcIds : rc[r].pc # "idle" /\ rc[q].pc # "idle" => r = q

(* ---- C38 -------------------------------------------------------------- *)
\* C38: every attempt starts only while the device session is marked
\* opened, whether started by a loop tick, by a manual-scan request or by
\* the queued-manual timer.
C38_StartsOnlyWhenOpened ==
  [][AttemptStarts => scannerOpened]_vars

(* ---- C39 -------------------------------------------------------------- *)
\* C39: in every scan-result event the top-level documentType equals the
\* documentType of the parsed payload carried by the same event.
C39_AnnouncedTypeIsParsedType ==
  \A i \in DOMAIN obs.sent :
    obs.sent[i].ch = "scan-result" => obs.sent[i].documentType = obs.sent[i].parsed

(* ---- C40 -------------------------------------------------------------- *)
\* the card types ocrStep has a polling loop for
CardNames == {"ID_CARD", "DRIVER_LICENSE", "ALIEN_CARD"}

\* C40: within performScan, ocrStep is only ever invoked with a detected
\* type of ID_CARD, DRIVER_LICENSE or ALIEN_CARD: its UNKNOWN probing rounds
\* are never reached from any attempt.
C40_OcrStepOnlyForCards ==
  \A s \in Slots : ps[s].pc = "ocr" => ps[s].docType \in CardNames

\* ocrStep polls the getter of a detected alien card, after an earlier
\* attempt ended in a failure path
C40_Witness ==
  /\ \E s \in Slots : ps[s].pc = "ocr" /\ ps[s].docType = "ALIEN_CARD"
  /\ lastFailedAt > 0

(* ---- C34 -------------------------------------------------------------- *)
\* a promise that is resolved or rejected
Settled(state) == state \in {"resolved", "rejected"}

\* C34: a worker response settles exactly the pending request with the same
\* id and at most once; a response whose id is not in the pending table
\* (unknown or already settled) changes nothing; request ids are never
\* reused within a client: a request takes an id no earlier request had.
C34_ResponseSettlesItsRequest ==
  [][/\ ret'.fn = "message"
          => IF ret'.value.id \in pending
             THEN /\ pending' = pending \ {ret'.value.id}
                  /\ promises[ret'.value.id] = "pending"
                  /\ Settled(promises'[ret'.value.id])
                  /\ \A j \in DOMAIN promises \ {ret'.value.id} :
                       promises'[j] = promises[j]
                  /\ DOMAIN promises' = DOMAIN promises
             ELSE UNCHANGED <<pending, promises, reqId, worker>>
     /\ \A j \in DOMAIN promises : Settled(promises[j]) => promises'[j] = promises[j]
     /\ \A id \in pending' \ pending :
          /\ id = reqId /\ reqId' = reqId + 1
          /\ id \notin DOMAIN promises
          /\ promises'[id] = "pending"
     /\ reqId' >= reqId
     /\ \A id \in pending' : id < reqId' /\ promises'[id] = "pending"]_vars

\* the handler has just been handed a second response to a request it had
\* resolved, while a later request is pending: nothing changed
C34_Witness ==
  /\ ret.fn = "message"
  /\ ~ret.value.found
  /\ ret.value.id \in DOMAIN promises
  /\ promises[ret.value.id] = "resolved"
  /\ \E j \in pending : j > ret.value.id

(* ---- C32 -------------------------------------------------------------- *)
\* C32: getDocumentType is called at most 3 times per attempt: polling
\* stops at the first result whose name is not UNKNOWN, and after three
\* UNKNOWN or absent results the last result is the one used.
C32_AtMostThreeTypePolls ==
  poll.fn = "docTypeStepWithRetry" =>
    /\ Len(poll.calls) <= 3
    /\ \A k \in DOMAIN poll.calls : poll.calls[k] = "getDocumentType"
    /\ \A k \in DOMAIN poll.answers :
         poll.answers[k] \notin {"UNKNOWN", "null"} => k = Len(poll.answers)
    /\ poll.pc = "returned" =>
         /\ Len(poll.answers) = Len(poll.calls)
         /\ poll.value = poll.answers[Len(poll.answers)]
         /\ poll.value \in {"UNKNOWN", "null"} => Len(poll.calls) = 3
    /\ poll.pc # "returned" =>
         \A k \in DOMAIN poll.answers : poll.answers[k] \in {"UNKNOWN", "null"}

\* the second poll found the type after a first UNKNOWN
C32_Witness ==
  /\ poll.fn = "docTypeStepWithRetry"
  /\ poll.pc = "returned"
  /\ poll.answers = <<"UNKNOWN", "DRIVER_LICENSE">>
  /\ poll.value = "DRIVER_LICENSE"

(* ---- C33 -------------------------------------------------------------- *)
\* the getter calls of two probing rounds, in order
ProbeOrder == <<"readIDCard", "readDriverLicense", "readAlienCard",
                "readIDCard", "readDriverLicense", "readAlienCard">>

\* ocrStep is probing: it was given no card type it has a loop for
Probing == poll.fn = "ocrStep" /\ poll.name = "UNKNOWN"

\* C33: ocrStep given an UNKNOWN type probes readIDCard, then
\* readDriverLicense, then readAlienCard, one call each per round for at
\* most 2 rounds, returns the first result its validator accepts, and issues
\* no further getter call after an acceptance.
C33_ProbesInOrder ==
  [][/\ Probing' =>
          /\ Len(poll'.calls) <= Len(ProbeOrder)
          /\ poll'.calls = SubSeq(ProbeOrder, 1, Len(poll'.calls))
          /\ \A k \in DOMAIN poll'.answers :
               /\ poll'.answers[k].documentType \in {TypeOfGetter(poll'.calls[k]), "null"}
               /\ isLikelyValidOcr(poll'.answers[k])
                    => /\ k = Len(poll'.answers)
                       /\ Len(poll'.calls) = k
                       /\ poll'.pc = "returned"
                       /\ poll'.value = poll'.answers[k]
          /\ poll'.pc = "returned" /\ poll'.value = NullData
               => /\ Len(poll'.calls) = Len(ProbeOrder)
                  /\ \A k \in DOMAIN poll'.answers : ~isLikelyValidOcr(poll'.answers[k])
     /\ Probing /\ poll.pc = "returned" => poll' = poll]_vars

\* the license getter of the second round was accepted by its name alone,
\* after four refused answers
C33_Witness ==
  /\ Probing
  /\ poll.pc = "returned"
  /\ Len(poll.calls) = 5
  /\ poll.value.documentType = "DRIVER_LICENSE"
  /\ ~poll.value.numberOk

(* ---- C31 -------------------------------------------------------------- *)
\* a text as digits (d), hyphens and other characters (x)
Shape(text) ==
  [i \in DOMAIN text |-> IF text[i] \in Range(Digits) THEN "d"
                         ELSE IF text[i] = "-" THEN "-" ELSE "x"]

DigitShape(n) == [i \in 1..n |-> "d"]

DigitsOf(text) == SelectSeq(text, LAMBDA c : c \in Range(Digits))

FirstSixDigits(text) == SubSeq(DigitsOf(text), 1, 6)

ValidResidentNo(text) ==
  Shape(text) \in {DigitShape(6) \o <<"-">> \o DigitShape(7), DigitShape(13)}

ValidLicenseNo(text) ==
  Shape(text) = DigitShape(2) \o <<"-">> \o DigitShape(2) \o <<"-">> \o DigitShape(6)
                  \o <<"-">> \o DigitShape(2)

ValidAlienNo(text) ==
  ValidResidentNo(text) /\ DigitsOf(text)[7] \in {"5", "6", "7", "8"}

\* the passport number an attempt has: none without an MRZ text
NoNumber == [isNull |-> TRUE, text |-> <<>>]

NumberOf(mrzText) ==
  IF mrzText # <<>> THEN extractPassportNo(mrzText) ELSE NoNumber

\* the candidate of the highest priority that exists
ByPriority(number, documentData) ==
  IF ~number.isNull
  THEN number.text
  ELSE IF documentData.documentType = "ID_CARD" /\ ValidResidentNo(documentData.idNo)
  THEN FirstSixDigits(documentData.idNo)
  ELSE IF documentData.documentType = "DRIVER_LICENSE" /\ ValidLicenseNo(documentData.licenseNo)
  THEN DigitsOf(documentData.licenseNo)
  ELSE IF documentData.documentType = "ALIEN_CARD" /\ ValidAlienNo(documentData.alienNo)
  THEN FirstSixDigits(documentData.alienNo)
  ELSE TypeName(documentData.documentType)

StorageKeySafe(id) ==
  /\ Len(id) >= 2
  /\ \A i \in DOMAIN id :
       id[i] \notin {"<", ">", ":", "\"", "/", "\\", "|", "?", "*", "\t", "\n", "\r"}

\* C31: the documentId of a recognized attempt is chosen by strict priority:
\* passport number from the MRZ; else the first 6 digits of a valid resident
\* number (ID_CARD); else the digits of a valid license number; else the
\* first 6 digits of a valid alien number; else the document type name; and
\* after sanitizing it contains none of the characters forbidden in storage
\* keys and has length >= 2, otherwise a generated UNKNOWN_<time> fallback
\* is used.
C31_DocumentIdByPriority ==
  ret.fn = "documentId" =>
    /\ StorageKeySafe(ret.value)
    /\ \A id \in {ByPriority(NumberOf(arg.mrzText), arg.documentData)} :
         IF StorageKeySafe(id)
         THEN ret.value = id
         ELSE ret.value = <<"U", "N", "K", "N", "O", "W", "N", "_">> \o DecimalOf(now)

\* a driver license that also carries a valid resident number is saved
\* under the digits of its license number
C31_Witness ==
  /\ ret.fn = "documentId"
  /\ arg.documentData.documentType = "DRIVER_LICENSE"
  /\ ValidResidentNo(arg.documentData.idNo)
  /\ ret.value = DigitRun(2) \o DigitRun(2) \o DigitRun(6) \o DigitRun(2)
====
